---------------------------- MODULE Spec2Model ----------------------------
(***************************************************************************)
(* A model of plaso's parser mediator (plaso/parsers/mediator.py) and of   *)
(* the SetupAPI text parser plugin (plaso/parsers/text_plugins/            *)
(* setupapi.py).                                                           *)
(*                                                                         *)
(* Python values are modelled as follows.  None is the empty tuple and a   *)
(* value v that may also be None is the one-element tuple <<v>>, so that   *)
(* an unset field and a field holding the empty string differ, as they do  *)
(* in Python.  An exception raised by an operation is recorded in          *)
(* result.error; result.op names the operation the last step performed.    *)
(***************************************************************************)
EXTENDS Integers, Sequences, FiniteSets, TLC

VARIABLES
  \* ParserMediator attributes (mediator.py, __init__).
  storage_writer,
  cached_parser_chain,
  parser_chain_components,
  event_data_stream_identifier,
  file_entry,
  language_tag,
  lcid,
  time_zone,
  windows_event_log_providers_per_path,
  abort,
  number_of_event_data,
  number_of_event_sources,
  number_of_extraction_warnings,
  number_of_recovery_warnings,
  last_activity_timestamp,
  \* Collaborators of the mediator.
  knowledge_base,      \* the knowledge base handed to __init__
  storage,             \* the containers the storage writer has accepted
  providers_read,      \* calls of GetWindowsEventLogProviders so far
  clock,               \* the value time.time() returns
  \* Objects owned by the mediator's callers.
  event_data,          \* the event data object a parser holds
  plugin_event_data,   \* SetupAPILogTextPlugin._event_data
  text_lines,          \* the lines of the file the text parser reads
  line_index,          \* number of lines of text_lines handled so far
  format_accepted,     \* what CheckRequiredFormat returned, None before
  \* Observation of the last step.
  result,              \* [op, error, value] of the last operation
  stream_event         \* the last event that decides the active stream

mediator_chain == <<cached_parser_chain, parser_chain_components>>

mediator_counters ==
  <<number_of_event_data, number_of_event_sources,
    number_of_extraction_warnings, number_of_recovery_warnings>>

mediator_preferences ==
  <<language_tag, lcid, time_zone, windows_event_log_providers_per_path,
    abort>>

mediator_vars ==
  <<storage_writer, mediator_chain, event_data_stream_identifier, file_entry,
    mediator_preferences, mediator_counters, last_activity_timestamp>>

\* The text parser's position in the file it reads.
reader_vars == <<text_lines, line_index, format_accepted>>

plugin_vars == <<plugin_event_data, reader_vars>>

\* The collaborators but for the storage writer's containers.
base_vars == <<knowledge_base, providers_read, clock>>

collaborator_vars == <<base_vars, storage>>

vars ==
  <<mediator_vars, collaborator_vars, event_data, plugin_vars, result,
    stream_event>>

----------------------------------------------------------------------------
(* Python values *)

None == <<>>

Some(v) == <<v>>

ValueOf(x) == x[1]

\* Python's "not x" for a value that is None or a string.
Falsy(x) == x = None \/ x = Some("")

\* The exceptions the modelled code raises.
NoError == "no error"

RuntimeError == "RuntimeError"

ValueError == "ValueError"

IndexError == "IndexError"

AttributeError == "AttributeError"

ParseError == "ParseError"

StorageError == "StorageError"

Outcome(op, error, value) == [op |-> op, error |-> error, value |-> value]

----------------------------------------------------------------------------
(* Bounds of the model *)

MaxChain == 4

MaxStored == 3

MaxContainers == 3

MaxProduced == 2

MaxClock == 3

MaxDepth == 2

\* Names of parsers and parser plugins pushed on the parser chain.
ParserNames == {"text", "setupapi", ""}

----------------------------------------------------------------------------
(* The parser chain *)

RECURSIVE JoinChain(_)
\* '/'.join(components)
JoinChain(components) ==
  IF Len(components) = 0 THEN ""
  ELSE IF Len(components) = 1 THEN components[1]
  ELSE components[1] \o "/" \o JoinChain(Tail(components))

\* The value GetParserChain stores in _cached_parser_chain and returns.
ParserChainValue ==
  IF Falsy(cached_parser_chain)
  THEN JoinChain(parser_chain_components)
  ELSE ValueOf(cached_parser_chain)

\* Everything but the parser chain and result.
not_chain_vars ==
  <<storage_writer, event_data_stream_identifier, file_entry,
    mediator_preferences, mediator_counters, last_activity_timestamp,
    collaborator_vars, event_data, plugin_vars, stream_event>>

\* Mutant: the cached string survives a push.
AppendToParserChain_KeepsCache(name) ==
  /\ cached_parser_chain' = cached_parser_chain
  /\ parser_chain_components' = Append(parser_chain_components, name)
  /\ result' = Outcome("AppendToParserChain", NoError, None)
  /\ UNCHANGED not_chain_vars

AppendToParserChain(name) ==
  /\ cached_parser_chain' = None
  /\ parser_chain_components' = Append(parser_chain_components, name)
  /\ result' = Outcome("AppendToParserChain", NoError, None)
  /\ UNCHANGED not_chain_vars

ClearParserChain ==
  /\ cached_parser_chain' = None
  /\ parser_chain_components' = <<>>
  /\ result' = Outcome("ClearParserChain", NoError, None)
  /\ UNCHANGED not_chain_vars

\* list.pop() of an empty list raises IndexError, after the cache was reset.
PopFromParserChain ==
  /\ cached_parser_chain' = None
  /\ IF Len(parser_chain_components) = 0
     THEN /\ parser_chain_components' = parser_chain_components
          /\ result' = Outcome("PopFromParserChain", IndexError, None)
     ELSE /\ parser_chain_components' =
               SubSeq(parser_chain_components, 1,
                      Len(parser_chain_components) - 1)
          /\ result' = Outcome("PopFromParserChain", NoError, None)
  /\ UNCHANGED not_chain_vars

GetParserChain ==
  /\ cached_parser_chain' = Some(ParserChainValue)
  /\ parser_chain_components' = parser_chain_components
  /\ result' = Outcome("GetParserChain", NoError, Some(ParserChainValue))
  /\ UNCHANGED not_chain_vars

----------------------------------------------------------------------------
(* File entries, path specifications and containers *)

PathSpec(location, separator) ==
  [location |-> location, separator |-> separator]

FileEntry(name, path_spec) == [name |-> name, path_spec |-> path_spec]

\* getattr(file_entry, 'path_spec', None), also for a file entry of None.
PathSpecOf(entry) == IF entry = None THEN None ELSE ValueOf(entry).path_spec

\* events.EventData with the attributes of SetupAPILogEventData
\* (setupapi.py, SetupAPILogEventData.__init__); parser and the event data
\* stream identifier start unset.
EventData(parser, entry_type, start_time, end_time, exit_status) ==
  [parser |-> parser, stream_identifier |-> None, entry_type |-> entry_type,
   start_time |-> start_time, end_time |-> end_time,
   exit_status |-> exit_status]

SetupAPILogEventData == EventData(None, None, None, None, None)

Container(kind, body) == [kind |-> kind, body |-> body]

\* The identifier the storage writer assigns to the next container.
NextIdentifier == Some(Len(storage) + 1)

\* storage_writer.AddAttributeContainer(container) of a writer that accepts.
AddAttributeContainer(container) == storage' = Append(storage, container)

SumOfCounters ==
  number_of_event_data + number_of_event_sources
    + number_of_extraction_warnings + number_of_recovery_warnings

----------------------------------------------------------------------------
(* Produce operations.  accepts is whether the storage writer's            *)
(* AddAttributeContainer returns; it raises StorageError otherwise.        *)

NotReady == RuntimeError

\* Mutant: the parser field is filled from the chain whatever it holds.
EventDataProduced_AlwaysFills(ed) ==
  [ed EXCEPT
     !.parser = Some(ParserChainValue),
     !.stream_identifier =
        IF event_data_stream_identifier # None
        THEN event_data_stream_identifier ELSE @]

\* The event data object after ProduceEventData got past the storage writer
\* check: parser and the event data stream identifier are filled in before
\* the container is handed to the storage writer.
EventDataProduced(ed) ==
  [ed EXCEPT
     !.parser = IF Falsy(ed.parser) THEN Some(ParserChainValue) ELSE @,
     !.stream_identifier =
        IF event_data_stream_identifier # None
        THEN event_data_stream_identifier ELSE @]

ProduceError(accepts) ==
  IF storage_writer = None THEN NotReady
  ELSE IF accepts THEN NoError ELSE StorageError

\* ProduceEventData(ed), but for the object ed itself and for result.
ProduceEventDataOf(ed, accepts) ==
  IF storage_writer = None
  THEN UNCHANGED <<mediator_vars, storage>>
  ELSE /\ cached_parser_chain' =
            IF Falsy(ed.parser) THEN Some(ParserChainValue)
            ELSE cached_parser_chain
       /\ IF accepts
          THEN /\ AddAttributeContainer(
                    Container("event_data", EventDataProduced(ed)))
               /\ number_of_event_data' = number_of_event_data + 1
               /\ last_activity_timestamp' = clock
          ELSE UNCHANGED <<storage, number_of_event_data,
                           last_activity_timestamp>>
       /\ UNCHANGED <<storage_writer, parser_chain_components,
                      event_data_stream_identifier, file_entry,
                      mediator_preferences, number_of_event_sources,
                      number_of_extraction_warnings,
                      number_of_recovery_warnings>>

ProduceEventData(accepts) ==
  /\ ProduceEventDataOf(event_data, accepts)
  /\ event_data' =
       IF storage_writer = None THEN event_data
       ELSE EventDataProduced(event_data)
  /\ result' = Outcome("ProduceEventData", ProduceError(accepts), None)
  /\ UNCHANGED <<base_vars, plugin_vars, stream_event>>

\* Mutant: the path specification of the stream is always that of the
\* active file entry.
StreamPathSpec_AlwaysFills(path_spec) == PathSpecOf(file_entry)

\* The path specification ProduceEventDataStream leaves in the stream.
StreamPathSpec(path_spec) ==
  IF path_spec = None THEN PathSpecOf(file_entry) ELSE path_spec

\* event_data_stream is None or Some(path_spec of the stream).
ProduceEventDataStream(event_data_stream, accepts) ==
  /\ IF storage_writer = None
     THEN UNCHANGED <<mediator_vars, storage, stream_event>>
     ELSE IF event_data_stream = None
     THEN /\ event_data_stream_identifier' = None
          /\ last_activity_timestamp' = clock
          /\ stream_event' = [kind |-> "none", identifier |-> None]
          /\ UNCHANGED storage
     ELSE IF accepts
     THEN /\ AddAttributeContainer(
               Container("event_data_stream",
                         StreamPathSpec(ValueOf(event_data_stream))))
          /\ event_data_stream_identifier' = NextIdentifier
          /\ last_activity_timestamp' = clock
          /\ stream_event' =
               [kind |-> "stream", identifier |-> NextIdentifier]
     ELSE UNCHANGED <<event_data_stream_identifier,
                      last_activity_timestamp, storage, stream_event>>
  /\ result' =
       Outcome("ProduceEventDataStream",
               IF event_data_stream = None /\ storage_writer # None
               THEN NoError ELSE ProduceError(accepts),
               event_data_stream)
  /\ UNCHANGED <<storage_writer, mediator_chain, file_entry,
                 mediator_preferences, mediator_counters, base_vars,
                 event_data, plugin_vars>>

\* Mutant: the event source is handed to storage without the check for a
\* storage writer.
ProduceEventSource_NoWriterCheck(accepts) ==
  /\ IF accepts
     THEN /\ AddAttributeContainer(Container("event_source", None))
          /\ number_of_event_sources' = number_of_event_sources + 1
          /\ last_activity_timestamp' = clock
     ELSE UNCHANGED <<storage, number_of_event_sources,
                      last_activity_timestamp>>
  /\ result' = Outcome("ProduceEventSource", ProduceError(accepts), None)
  /\ UNCHANGED <<storage_writer, mediator_chain,
                 event_data_stream_identifier, file_entry,
                 mediator_preferences, number_of_event_data,
                 number_of_extraction_warnings, number_of_recovery_warnings,
                 base_vars, event_data, plugin_vars, stream_event>>

\* Mutant: the heartbeat is not refreshed.
ProduceEventSource_NoHeartbeat(accepts) ==
  /\ IF storage_writer # None /\ accepts
     THEN /\ AddAttributeContainer(Container("event_source", None))
          /\ number_of_event_sources' = number_of_event_sources + 1
     ELSE UNCHANGED <<storage, number_of_event_sources>>
  /\ result' = Outcome("ProduceEventSource", ProduceError(accepts), None)
  /\ UNCHANGED <<storage_writer, mediator_chain,
                 event_data_stream_identifier, file_entry,
                 mediator_preferences, number_of_event_data,
                 number_of_extraction_warnings, number_of_recovery_warnings,
                 last_activity_timestamp, base_vars, event_data,
                 plugin_vars, stream_event>>

ProduceEventSource(accepts) ==
  /\ IF storage_writer # None /\ accepts
     THEN /\ AddAttributeContainer(Container("event_source", None))
          /\ number_of_event_sources' = number_of_event_sources + 1
          /\ last_activity_timestamp' = clock
     ELSE UNCHANGED <<storage, number_of_event_sources,
                      last_activity_timestamp>>
  /\ result' = Outcome("ProduceEventSource", ProduceError(accepts), None)
  /\ UNCHANGED <<storage_writer, mediator_chain,
                 event_data_stream_identifier, file_entry,
                 mediator_preferences, number_of_event_data,
                 number_of_extraction_warnings, number_of_recovery_warnings,
                 base_vars, event_data, plugin_vars,
                 stream_event>>

\* The path specification a warning carries: the one given or, when it is
\* None and there is an active file entry, that entry's.
\* Mutant: a warning without path specification stays without one.
WarningPathSpec_AsGiven(path_spec) == path_spec

WarningPathSpec(path_spec) ==
  IF path_spec = None /\ file_entry # None
  THEN PathSpecOf(file_entry) ELSE path_spec

Warning(message, path_spec) ==
  [message |-> message, parser_chain |-> ParserChainValue,
   path_spec |-> WarningPathSpec(path_spec)]

\* ProduceExtractionWarning, but for result.
ProduceExtractionWarningOf(message, path_spec, accepts) ==
  /\ IF storage_writer = None
     THEN UNCHANGED <<cached_parser_chain, storage,
                      number_of_extraction_warnings,
                      last_activity_timestamp>>
     ELSE /\ cached_parser_chain' = Some(ParserChainValue)
          /\ IF accepts
             THEN /\ AddAttributeContainer(
                       Container("extraction_warning",
                                 Warning(message, path_spec)))
                  /\ number_of_extraction_warnings' =
                       number_of_extraction_warnings + 1
                  /\ last_activity_timestamp' = clock
             ELSE UNCHANGED <<storage, number_of_extraction_warnings,
                              last_activity_timestamp>>
  /\ UNCHANGED <<storage_writer, parser_chain_components,
                 event_data_stream_identifier, file_entry,
                 mediator_preferences, number_of_event_data,
                 number_of_event_sources, number_of_recovery_warnings>>

ProduceExtractionWarning(message, path_spec, accepts) ==
  /\ ProduceExtractionWarningOf(message, path_spec, accepts)
  /\ result' =
       Outcome("ProduceExtractionWarning", ProduceError(accepts), None)
  /\ UNCHANGED <<base_vars, event_data, plugin_vars, stream_event>>

\* Mutant: a recovery warning is counted as an extraction warning.
ProduceRecoveryWarning_WrongCounter(message, path_spec, accepts) ==
  /\ IF storage_writer = None
     THEN UNCHANGED <<cached_parser_chain, storage,
                      number_of_extraction_warnings,
                      last_activity_timestamp>>
     ELSE /\ cached_parser_chain' = Some(ParserChainValue)
          /\ IF accepts
             THEN /\ AddAttributeContainer(
                       Container("recovery_warning",
                                 Warning(message, path_spec)))
                  /\ number_of_extraction_warnings' =
                       number_of_extraction_warnings + 1
                  /\ last_activity_timestamp' = clock
             ELSE UNCHANGED <<storage, number_of_extraction_warnings,
                              last_activity_timestamp>>
  /\ result' =
       Outcome("ProduceRecoveryWarning", ProduceError(accepts), None)
  /\ UNCHANGED <<storage_writer, parser_chain_components,
                 event_data_stream_identifier, file_entry,
                 mediator_preferences, number_of_event_data,
                 number_of_event_sources, number_of_recovery_warnings,
                 base_vars, event_data, plugin_vars, stream_event>>

ProduceRecoveryWarning(message, path_spec, accepts) ==
  /\ IF storage_writer = None
     THEN UNCHANGED <<cached_parser_chain, storage,
                      number_of_recovery_warnings, last_activity_timestamp>>
     ELSE /\ cached_parser_chain' = Some(ParserChainValue)
          /\ IF accepts
             THEN /\ AddAttributeContainer(
                       Container("recovery_warning",
                                 Warning(message, path_spec)))
                  /\ number_of_recovery_warnings' =
                       number_of_recovery_warnings + 1
                  /\ last_activity_timestamp' = clock
             ELSE UNCHANGED <<storage, number_of_recovery_warnings,
                              last_activity_timestamp>>
  /\ result' =
       Outcome("ProduceRecoveryWarning", ProduceError(accepts), None)
  /\ UNCHANGED <<storage_writer, parser_chain_components,
                 event_data_stream_identifier, file_entry,
                 mediator_preferences, number_of_event_data,
                 number_of_event_sources, number_of_extraction_warnings,
                 base_vars, event_data, plugin_vars,
                 stream_event>>

\* AddYearLessLogHelper: the container is handed to the storage writer and
\* nothing else of the mediator changes.  Without a storage writer the call
\* on None raises AttributeError.
AddYearLessLogHelper(accepts) ==
  /\ IF storage_writer # None /\ accepts
     THEN AddAttributeContainer(
            Container("year_less_log_helper", event_data_stream_identifier))
     ELSE UNCHANGED storage
  /\ result' =
       Outcome("AddYearLessLogHelper",
               IF storage_writer = None THEN AttributeError
               ELSE IF accepts THEN NoError ELSE StorageError, None)
  /\ UNCHANGED <<mediator_vars, base_vars, event_data,
                 plugin_vars, stream_event>>

----------------------------------------------------------------------------
(* Strings *)

UpperCaseLetters == "ABCDEFGHIJKLMNOPQRSTUVWXYZ"

LowerCaseLetters == "abcdefghijklmnopqrstuvwxyz"

Digits == "0123456789"

CharAt(s, i) == SubSeq(s, i, i)

\* Whether the one-character string c occurs in the string chars.
CharIn(c, chars) == \E i \in 1..Len(chars) : CharAt(chars, i) = c

LowerChar(c) ==
  IF CharIn(c, UpperCaseLetters)
  THEN CharAt(LowerCaseLetters,
              CHOOSE i \in 1..26 : CharAt(UpperCaseLetters, i) = c)
  ELSE c

RECURSIVE Lower(_)
\* str.lower()
Lower(s) ==
  IF Len(s) = 0 THEN ""
  ELSE LowerChar(CharAt(s, 1)) \o Lower(SubSeq(s, 2, Len(s)))

\* Whether s has the string prefix at (1-based) position i.
StartsWithAt(s, i, prefix) ==
  /\ i + Len(prefix) - 1 <= Len(s)
  /\ SubSeq(s, i, i + Len(prefix) - 1) = prefix

\* str.rpartition(separator) for a one-character separator: the text before
\* the last separator and the text after it; ("", s) without a separator.
RPartition(s, separator) ==
  LET places == {i \in 1..Len(s) : CharAt(s, i) = separator}
  IN IF places = {} THEN <<"", s>>
     ELSE LET last == CHOOSE i \in places : \A j \in places : j <= i
          IN <<SubSeq(s, 1, last - 1), SubSeq(s, last + 1, Len(s))>>

----------------------------------------------------------------------------
(* The storage writer, the file entry and the abort flag *)

\* Everything but the named mediator attribute and result is unchanged by
\* the setters below.
SetStorageWriter(writer) ==
  /\ storage_writer' = writer
  /\ result' = Outcome("SetStorageWriter", NoError, None)
  /\ UNCHANGED <<mediator_chain, event_data_stream_identifier, file_entry,
                 mediator_preferences, mediator_counters,
                 last_activity_timestamp, collaborator_vars, event_data,
                 plugin_vars, stream_event>>

\* Mutant: SetFileEntry fails without a storage writer.
SetFileEntry_NeedsWriter(entry) ==
  /\ IF storage_writer = None
     THEN /\ result' = Outcome("SetFileEntry", NotReady, None)
          /\ UNCHANGED <<file_entry, event_data_stream_identifier,
                         stream_event>>
     ELSE /\ file_entry' = entry
          /\ event_data_stream_identifier' = None
          /\ stream_event' = [kind |-> "set_file_entry", identifier |-> None]
          /\ result' = Outcome("SetFileEntry", NoError, None)
  /\ UNCHANGED <<storage_writer, mediator_chain, mediator_preferences,
                 mediator_counters, last_activity_timestamp,
                 collaborator_vars, event_data, plugin_vars>>

\* Mutant: the active event data stream survives a new file entry.
SetFileEntry_KeepsStream(entry) ==
  /\ file_entry' = entry
  /\ stream_event' = [kind |-> "set_file_entry", identifier |-> None]
  /\ result' = Outcome("SetFileEntry", NoError, None)
  /\ UNCHANGED <<storage_writer, mediator_chain,
                 event_data_stream_identifier, mediator_preferences,
                 mediator_counters, last_activity_timestamp,
                 collaborator_vars, event_data, plugin_vars>>

\* Mutant: setting the file entry counts as activity.
SetFileEntry_Heartbeat(entry) ==
  /\ file_entry' = entry
  /\ event_data_stream_identifier' = None
  /\ last_activity_timestamp' = clock
  /\ stream_event' = [kind |-> "set_file_entry", identifier |-> None]
  /\ result' = Outcome("SetFileEntry", NoError, None)
  /\ UNCHANGED <<storage_writer, mediator_chain, mediator_preferences,
                 mediator_counters, collaborator_vars, event_data,
                 plugin_vars>>

SetFileEntry(entry) ==
  /\ file_entry' = entry
  /\ event_data_stream_identifier' = None
  /\ stream_event' = [kind |-> "set_file_entry", identifier |-> None]
  /\ result' = Outcome("SetFileEntry", NoError, None)
  /\ UNCHANGED <<storage_writer, mediator_chain, mediator_preferences,
                 mediator_counters, last_activity_timestamp,
                 collaborator_vars, event_data, plugin_vars>>

\* Mutant: leaving a file entry also leaves its event data stream.
ResetFileEntry_ClearsStream ==
  /\ file_entry' = None
  /\ event_data_stream_identifier' = None
  /\ result' = Outcome("ResetFileEntry", NoError, None)
  /\ UNCHANGED <<storage_writer, mediator_chain, mediator_preferences,
                 mediator_counters, last_activity_timestamp,
                 collaborator_vars, event_data, plugin_vars, stream_event>>

\* Mutant: leaving a file entry drops the message file index.
ResetFileEntry_ClearsIndex ==
  /\ file_entry' = None
  /\ windows_event_log_providers_per_path' = None
  /\ result' = Outcome("ResetFileEntry", NoError, None)
  /\ UNCHANGED <<storage_writer, mediator_chain,
                 event_data_stream_identifier, language_tag, lcid,
                 time_zone, abort, mediator_counters,
                 last_activity_timestamp, collaborator_vars, event_data,
                 plugin_vars, stream_event>>

ResetFileEntry ==
  /\ file_entry' = None
  /\ result' = Outcome("ResetFileEntry", NoError, None)
  /\ UNCHANGED <<storage_writer, mediator_chain,
                 event_data_stream_identifier, mediator_preferences,
                 mediator_counters, last_activity_timestamp,
                 collaborator_vars, event_data, plugin_vars, stream_event>>

SignalAbort ==
  /\ abort' = TRUE
  /\ result' = Outcome("SignalAbort", NoError, None)
  /\ UNCHANGED <<storage_writer, mediator_chain,
                 event_data_stream_identifier, file_entry, language_tag,
                 lcid, time_zone, windows_event_log_providers_per_path,
                 mediator_counters, last_activity_timestamp,
                 collaborator_vars, event_data, plugin_vars, stream_event>>

\* PathHelper.GetRelativePathForPathSpec: the location of the path
\* specification, None without one.
GetRelativePathForPathSpec(path_spec) ==
  IF path_spec = None THEN None ELSE ValueOf(path_spec).location

\* PathHelper.GetDisplayNameForPathSpec: the type indicator and the relative
\* path.
GetDisplayNameForPathSpec(path_spec) ==
  "NTFS:" \o ValueOf(GetRelativePathForPathSpec(path_spec))

GetDisplayNameResult(entry) ==
  LET used == IF entry = None THEN file_entry ELSE entry
  IN IF used = None THEN Outcome("GetDisplayName", ValueError, None)
     ELSE IF Falsy(GetRelativePathForPathSpec(PathSpecOf(used)))
     THEN Outcome("GetDisplayName", NoError, Some(ValueOf(used).name))
     ELSE Outcome("GetDisplayName", NoError,
                  Some(GetDisplayNameForPathSpec(PathSpecOf(used))))

GetDisplayName(entry) ==
  /\ result' = GetDisplayNameResult(entry)
  /\ UNCHANGED <<mediator_vars, collaborator_vars, event_data, plugin_vars,
                 stream_event>>

----------------------------------------------------------------------------
(* Preferred language and time zone *)

DEFAULT_LANGUAGE_TAG == "en-US"

DEFAULT_LCID == 1033

DEFAULT_TIME_ZONE == "UTC"

\* A value that is not a string, such as an integer.
NonString(repr) == <<"object", repr>>

IsString(x) == Len(x) = 1

\* languages.WindowsLanguageHelper.GetLCIDForLanguageTag
GetLCIDForLanguageTag(tag) ==
  CASE Lower(tag) = "en-us" -> Some(1033)
    [] Lower(tag) = "is-is" -> Some(1039)
    [] Lower(tag) = "de-de" -> Some(1031)
    [] OTHER -> None

SetPreferredLanguage(tag) ==
  /\ IF tag # None /\ ~IsString(tag)
     THEN /\ result' = Outcome("SetPreferredLanguage", ValueError, None)
          /\ UNCHANGED <<language_tag, lcid>>
     ELSE IF tag # None /\ GetLCIDForLanguageTag(ValueOf(tag)) = None
     THEN /\ result' = Outcome("SetPreferredLanguage", ValueError, None)
          /\ UNCHANGED <<language_tag, lcid>>
     ELSE /\ language_tag' = tag
          /\ lcid' = IF tag = None THEN None
                     ELSE GetLCIDForLanguageTag(ValueOf(tag))
          /\ result' = Outcome("SetPreferredLanguage", NoError, None)
  /\ UNCHANGED <<storage_writer, mediator_chain,
                 event_data_stream_identifier, file_entry, time_zone,
                 windows_event_log_providers_per_path, abort,
                 mediator_counters, last_activity_timestamp,
                 collaborator_vars, event_data, plugin_vars, stream_event>>

\* The zone names pytz.timezone resolves.
TimeZones == {"UTC", "Europe/Amsterdam"}

\* Mutant: a time zone that was read or set before is kept.
SetPreferredTimeZone_KeepsCached(time_zone_string) ==
  /\ IF ~Falsy(time_zone_string) /\ ValueOf(time_zone_string) \notin TimeZones
     THEN /\ result' = Outcome("SetPreferredTimeZone", ValueError, None)
          /\ UNCHANGED time_zone
     ELSE /\ time_zone' =
               IF time_zone # None THEN time_zone
               ELSE IF Falsy(time_zone_string) THEN None
               ELSE time_zone_string
          /\ result' = Outcome("SetPreferredTimeZone", NoError, None)
  /\ UNCHANGED <<storage_writer, mediator_chain,
                 event_data_stream_identifier, file_entry, language_tag,
                 lcid, windows_event_log_providers_per_path, abort,
                 mediator_counters, last_activity_timestamp,
                 collaborator_vars, event_data, plugin_vars, stream_event>>

SetPreferredTimeZone(time_zone_string) ==
  /\ IF ~Falsy(time_zone_string) /\ ValueOf(time_zone_string) \notin TimeZones
     THEN /\ result' = Outcome("SetPreferredTimeZone", ValueError, None)
          /\ UNCHANGED time_zone
     ELSE /\ time_zone' =
               IF Falsy(time_zone_string) THEN None ELSE time_zone_string
          /\ result' = Outcome("SetPreferredTimeZone", NoError, None)
  /\ UNCHANGED <<storage_writer, mediator_chain,
                 event_data_stream_identifier, file_entry, language_tag,
                 lcid, windows_event_log_providers_per_path, abort,
                 mediator_counters, last_activity_timestamp,
                 collaborator_vars, event_data, plugin_vars, stream_event>>

----------------------------------------------------------------------------
(* Windows EventLog message files *)

WindowsEventLogProvider(log_source, event_message_files) ==
  [log_source |-> log_source, event_message_files |-> event_message_files]

KnowledgeBase(language, timezone, system_root, providers) ==
  [language |-> language, timezone |-> timezone,
   system_root |-> system_root, providers |-> providers]

\* PathHelper.GetWindowsSystemPath: the path with a leading %SystemRoot%
\* expanded from the environment variables, split at its last backslash.
GetWindowsSystemPath(windows_path, system_root) ==
  LET variable == "%SystemRoot%"
      expanded ==
        IF StartsWithAt(windows_path, 1, variable)
        THEN system_root
               \o SubSeq(windows_path, Len(variable) + 1, Len(windows_path))
        ELSE windows_path
  IN RPartition(expanded, "\\")

\* language_tags.LanguageTagHelper.IsLanguageTag
IsLanguageTag(segment) == Lower(segment) \in {"en-us", "de-de", "is-is"}

\* index[path][filename] = provider on a dict of dicts kept as the sequence
\* of its (path, filename, provider) items in insertion order: assigning to
\* a key the dict holds replaces the value in place.
IndexPut(index, path, filename, provider) ==
  IF \E i \in 1..Len(index) :
       index[i].path = path /\ index[i].filename = filename
  THEN [i \in 1..Len(index) |->
          IF index[i].path = path /\ index[i].filename = filename
          THEN [index[i] EXCEPT !.provider = provider] ELSE index[i]]
  ELSE Append(index,
              [path |-> path, filename |-> filename, provider |-> provider])

RECURSIVE AddMessageFiles(_, _, _, _)
\* The inner loop over provider.event_message_files or [].
AddMessageFiles(index, provider, files, system_root) ==
  IF Len(files) = 0 THEN index
  ELSE LET parts == GetWindowsSystemPath(files[1], system_root)
       IN AddMessageFiles(
            IndexPut(index, Lower(parts[1]), Lower(parts[2]),
                     provider.log_source),
            provider, Tail(files), system_root)

RECURSIVE AddProviders(_, _, _)
\* The loop over knowledge_base.GetWindowsEventLogProviders().
AddProviders(index, providers, system_root) ==
  IF Len(providers) = 0 THEN index
  ELSE AddProviders(
         AddMessageFiles(
           index, providers[1],
           IF providers[1].event_message_files = None THEN <<>>
           ELSE ValueOf(providers[1].event_message_files),
           system_root),
         Tail(providers), system_root)

\* The index after the first part of GetWindowsEventLogMessageFile.
ProvidersPerPath ==
  IF windows_event_log_providers_per_path = None
  THEN AddProviders(<<>>, knowledge_base.providers,
                    knowledge_base.system_root)
  ELSE ValueOf(windows_event_log_providers_per_path)

WindowsEventLogMessageFileArtifact(path, windows_path) ==
  [path |-> path, windows_path |-> windows_path]

\* Mutant: the last directory segment is kept when it is a language tag.
LookupMessageFile_KeepsTag(index, relative_path, separator) ==
  LET parts == RPartition(Lower(relative_path), separator)
      matches ==
        {i \in 1..Len(index) :
           /\ index[i].path = parts[1]
           /\ parts[2] \in {index[i].filename, index[i].filename \o ".mui"}}
  IN IF matches = {} THEN None
     ELSE LET first == CHOOSE i \in matches : \A j \in matches : i <= j
          IN Some(WindowsEventLogMessageFileArtifact(
                    relative_path,
                    parts[1] \o "\\" \o index[first].filename))

\* The second part of GetWindowsEventLogMessageFile, for a file entry with a
\* relative path: the message file found in index, or None.
LookupMessageFile(index, relative_path, separator) ==
  LET parts == RPartition(Lower(relative_path), separator)
      lookup_filename == parts[2]
      base == RPartition(parts[1], separator)
      lookup_path == IF IsLanguageTag(base[2]) THEN base[1] ELSE parts[1]
      matches ==
        {i \in 1..Len(index) :
           /\ index[i].path = lookup_path
           /\ lookup_filename \in
                {index[i].filename, index[i].filename \o ".mui"}}
  IN IF matches = {} THEN None
     ELSE LET first == CHOOSE i \in matches : \A j \in matches : i <= j
          IN Some(WindowsEventLogMessageFileArtifact(
                    relative_path,
                    lookup_path \o "\\" \o index[first].filename))

GetWindowsEventLogMessageFile ==
  /\ windows_event_log_providers_per_path' = Some(ProvidersPerPath)
  /\ providers_read' =
       IF windows_event_log_providers_per_path = None
       THEN providers_read + 1 ELSE providers_read
  /\ result' =
       IF file_entry = None
       THEN Outcome("GetWindowsEventLogMessageFile", NoError, None)
       ELSE IF GetRelativePathForPathSpec(PathSpecOf(file_entry)) = None
       THEN Outcome("GetWindowsEventLogMessageFile", AttributeError, None)
       ELSE Outcome(
              "GetWindowsEventLogMessageFile", NoError,
              LookupMessageFile(
                ProvidersPerPath,
                ValueOf(GetRelativePathForPathSpec(PathSpecOf(file_entry))),
                ValueOf(PathSpecOf(file_entry)).separator))
  /\ UNCHANGED <<storage_writer, mediator_chain,
                 event_data_stream_identifier, file_entry, language_tag,
                 lcid, time_zone, abort, mediator_counters,
                 last_activity_timestamp, knowledge_base, storage, clock,
                 event_data, plugin_vars, stream_event>>

----------------------------------------------------------------------------
(* The mediator's callers and collaborators *)

\* The language property: an unset language tag is first replaced by the
\* language of the knowledge base, or without one by the default, in lower
\* case; the locale identifier is not touched.
language ==
  /\ language_tag' =
       IF Falsy(language_tag)
       THEN Some(Lower(IF Lower(knowledge_base.language) = ""
                       THEN DEFAULT_LANGUAGE_TAG
                       ELSE Lower(knowledge_base.language)))
       ELSE language_tag
  /\ result' = Outcome("language", NoError, language_tag')
  /\ UNCHANGED <<storage_writer, mediator_chain,
                 event_data_stream_identifier, file_entry, lcid, time_zone,
                 windows_event_log_providers_per_path, abort,
                 mediator_counters, last_activity_timestamp,
                 collaborator_vars, event_data, plugin_vars, stream_event>>

\* Mutant: the time zone of the knowledge base is not used.
timezone_IgnoresKnowledgeBase ==
  /\ time_zone' =
       IF time_zone # None THEN time_zone ELSE Some(DEFAULT_TIME_ZONE)
  /\ result' = Outcome("timezone", NoError, time_zone')
  /\ UNCHANGED <<storage_writer, mediator_chain,
                 event_data_stream_identifier, file_entry, language_tag,
                 lcid, windows_event_log_providers_per_path, abort,
                 mediator_counters, last_activity_timestamp,
                 collaborator_vars, event_data, plugin_vars, stream_event>>

\* The timezone property: an unset time zone is first replaced by the time
\* zone of the knowledge base, or without one by the default.
timezone ==
  /\ time_zone' =
       IF time_zone # None THEN time_zone
       ELSE IF knowledge_base.timezone # None THEN knowledge_base.timezone
       ELSE Some(DEFAULT_TIME_ZONE)
  /\ result' = Outcome("timezone", NoError, time_zone')
  /\ UNCHANGED <<storage_writer, mediator_chain,
                 event_data_stream_identifier, file_entry, language_tag,
                 lcid, windows_event_log_providers_per_path, abort,
                 mediator_counters, last_activity_timestamp,
                 collaborator_vars, event_data, plugin_vars, stream_event>>

\* time.time() advances.
Tick ==
  /\ clock' = clock + 1
  /\ result' = Outcome("Tick", NoError, None)
  /\ UNCHANGED <<mediator_vars, knowledge_base, providers_read, storage,
                 event_data, plugin_vars, stream_event>>

\* A parser creates a new event data object, with the given parser value.
NewEventData(parser) ==
  /\ event_data' = EventData(parser, None, None, None, None)
  /\ result' = Outcome("NewEventData", NoError, None)
  /\ UNCHANGED <<mediator_vars, collaborator_vars, plugin_vars,
                 stream_event>>

SystemRoot == "\\Windows"

ProviderFoo ==
  WindowsEventLogProvider(
    "Foo", Some(<<"%SystemRoot%\\System32\\Foo.dll">>))

ProviderBar ==
  WindowsEventLogProvider(
    "Bar", Some(<<"%SystemRoot%\\System32\\Foo.DLL",
                  "\\Program Files\\Bar\\Bar.exe">>))

ProviderNone == WindowsEventLogProvider("Nothing", None)

DefaultKnowledgeBase ==
  KnowledgeBase("", None, SystemRoot,
                <<ProviderFoo, ProviderBar, ProviderNone>>)

LogPathSpec == Some(PathSpec(Some("\\Windows\\INF\\setupapi.dev.log"), "\\"))

LogFileEntry == Some(FileEntry("setupapi.dev.log", LogPathSpec))

MuiPathSpec ==
  Some(PathSpec(Some("\\Windows\\System32\\en-US\\Foo.dll.mui"), "\\"))

MuiFileEntry == Some(FileEntry("Foo.dll.mui", MuiPathSpec))

\* A file entry whose path specification has no location.
StreamFileEntry == Some(FileEntry("stream", Some(PathSpec(None, "/"))))

\* ParserMediator.__init__, for the given knowledge base, and the initial
\* state of the collaborators and of a text parser reading the given lines.
InitWith(kb, lines) ==
  /\ storage_writer = None
  /\ cached_parser_chain = None
  /\ parser_chain_components = <<>>
  /\ event_data_stream_identifier = None
  /\ file_entry = None
  /\ language_tag = Some(DEFAULT_LANGUAGE_TAG)
  /\ lcid = Some(DEFAULT_LCID)
  /\ time_zone = None
  /\ windows_event_log_providers_per_path = None
  /\ abort = FALSE
  /\ number_of_event_data = 0
  /\ number_of_event_sources = 0
  /\ number_of_extraction_warnings = 0
  /\ number_of_recovery_warnings = 0
  /\ last_activity_timestamp = 0
  /\ knowledge_base = kb
  /\ providers_read = 0
  /\ storage = <<>>
  /\ clock = 1
  /\ event_data = SetupAPILogEventData
  /\ plugin_event_data = None
  /\ text_lines = lines
  /\ line_index = 0
  /\ format_accepted = None
  /\ result = Outcome("__init__", NoError, None)
  /\ stream_event = [kind |-> "init", identifier |-> None]

Init == InitWith(DefaultKnowledgeBase, <<>>)

----------------------------------------------------------------------------
(* The SetupAPI text parser plugin: _ParseRecord *)

\* The structure a line pattern yields; a name the pattern does not set is
\* None, which is what _GetValueFromStructure then returns.
Structure(entry_type, start_time, end_time, exit_status) ==
  [entry_type |-> entry_type, start_time |-> start_time,
   end_time |-> end_time, exit_status |-> exit_status]

EmptyStructure == Structure(None, None, None, None)

IsLeapYear(year) ==
  (year % 4 = 0 /\ year % 100 # 0) \/ year % 400 = 0

DaysPerMonth(year, month) ==
  IF month = 2 THEN (IF IsLeapYear(year) THEN 29 ELSE 28)
  ELSE IF month \in {4, 6, 9, 11} THEN 30 ELSE 31

\* Whether dfdatetime's TimeElementsInMilliseconds accepts the tuple
\* (year, month, day of month, hours, minutes, seconds, milliseconds).
ValidTimeElements(t) ==
  /\ Len(t) = 7
  /\ t[2] \in 1..12
  /\ t[3] \in 1..DaysPerMonth(t[1], t[2])
  /\ t[4] \in 0..23
  /\ t[5] \in 0..59
  /\ t[6] \in 0..59
  /\ t[7] \in 0..999

\* Mutant: a date and time value that cannot be made raises nothing.
ParseTimeElementsFails_Swallowed(time_elements_structure) == FALSE

\* Whether _ParseTimeElements raises ParseError: unpacking None raises
\* TypeError and an invalid tuple ValueError, both turned into ParseError.
ParseTimeElementsFails(time_elements_structure) ==
  \/ time_elements_structure = None
  \/ ~ValidTimeElements(ValueOf(time_elements_structure))

\* Mutant: the date and time value is not marked as local time.
ParseTimeElements_NotLocal(time_elements_structure) ==
  Some([time_elements_tuple |-> ValueOf(time_elements_structure),
        is_local_time |-> FALSE])

\* The date and time value _ParseTimeElements returns.
ParseTimeElements(time_elements_structure) ==
  Some([time_elements_tuple |-> ValueOf(time_elements_structure),
        is_local_time |-> TRUE])

\* _ResetState
ResetState == plugin_event_data' = None

\* _ParseRecord's own error: the one raised before, or instead of, the call
\* of ProduceEventData.  An attribute of self._event_data is assigned after
\* the right-hand side was evaluated, so a ParseError comes first.
ParseRecordError(key, structure) ==
  CASE key = "section_start" ->
         IF ParseTimeElementsFails(structure.start_time) THEN ParseError
         ELSE IF plugin_event_data = None THEN AttributeError ELSE NoError
    [] key = "section_end" ->
         IF ParseTimeElementsFails(structure.end_time) THEN ParseError
         ELSE IF plugin_event_data = None THEN AttributeError ELSE NoError
    [] key = "section_end_exit_status" ->
         IF plugin_event_data = None THEN AttributeError ELSE NoError
    [] OTHER -> NoError

\* The in-progress record with the exit status of the line set.
WithExitStatus(structure) ==
  [ValueOf(plugin_event_data) EXCEPT !.exit_status = structure.exit_status]

\* Mutant: a header that interrupts an open section submits the unfinished
\* record before it starts the new one.
HandleSectionHeader_Flushes(structure, accepts) ==
  /\ plugin_event_data' =
       Some([SetupAPILogEventData EXCEPT
               !.entry_type = structure.entry_type])
  /\ IF plugin_event_data = None
     THEN UNCHANGED <<mediator_vars, storage>>
     ELSE ProduceEventDataOf(ValueOf(plugin_event_data), accepts)

\* Mutant: the record of a new section keeps the times of the one before.
HandleSectionHeader_KeepsTimes(structure, accepts) ==
  /\ plugin_event_data' =
       Some(IF plugin_event_data = None
            THEN [SetupAPILogEventData EXCEPT
                    !.entry_type = structure.entry_type]
            ELSE [ValueOf(plugin_event_data) EXCEPT
                    !.entry_type = structure.entry_type])
  /\ UNCHANGED <<mediator_vars, storage>>

\* key == 'section_header': a new record replaces the one in progress.
HandleSectionHeader(structure, accepts) ==
  /\ plugin_event_data' =
       Some([SetupAPILogEventData EXCEPT
               !.entry_type = structure.entry_type])
  /\ UNCHANGED <<mediator_vars, storage>>

\* key == 'section_start', when it raises nothing.
HandleSectionStart(structure, accepts) ==
  /\ plugin_event_data' =
       Some([ValueOf(plugin_event_data) EXCEPT
               !.start_time = ParseTimeElements(structure.start_time)])
  /\ UNCHANGED <<mediator_vars, storage>>

\* Mutant: the end of a section submits the record, before its exit status.
HandleSectionEnd_Produces(structure, accepts) ==
  /\ plugin_event_data' =
       Some([ValueOf(plugin_event_data) EXCEPT
               !.end_time = ParseTimeElements(structure.end_time)])
  /\ ProduceEventDataOf(
       [ValueOf(plugin_event_data) EXCEPT
          !.end_time = ParseTimeElements(structure.end_time)], accepts)

\* key == 'section_end', when it raises nothing.
HandleSectionEnd(structure, accepts) ==
  /\ plugin_event_data' =
       Some([ValueOf(plugin_event_data) EXCEPT
               !.end_time = ParseTimeElements(structure.end_time)])
  /\ UNCHANGED <<mediator_vars, storage>>

\* key == 'section_end_exit_status', with a record in progress: the record
\* is produced and, unless ProduceEventData raised, the state is reset.
HandleSectionEndExitStatus(structure, accepts) ==
  /\ ProduceEventDataOf(WithExitStatus(structure), accepts)
  /\ IF ProduceError(accepts) = NoError
     THEN ResetState
     ELSE plugin_event_data' =
            Some(IF storage_writer = None
                 THEN WithExitStatus(structure)
                 ELSE EventDataProduced(WithExitStatus(structure)))

\* _ParseRecord(parser_mediator, key, structure), but for result and the
\* text parser's position.
ParseRecordOf(key, structure, accepts) ==
  IF ParseRecordError(key, structure) # NoError
  THEN UNCHANGED <<mediator_vars, storage, plugin_event_data>>
  ELSE CASE key = "section_header" ->
              HandleSectionHeader(structure, accepts)
         [] key = "section_start" -> HandleSectionStart(structure, accepts)
         [] key = "section_end" -> HandleSectionEnd(structure, accepts)
         [] key = "section_end_exit_status" ->
              HandleSectionEndExitStatus(structure, accepts)
         [] OTHER -> UNCHANGED <<mediator_vars, storage, plugin_event_data>>

\* The error _ParseRecord ends with, its own or ProduceEventData's.
ParseRecordResult(key, structure, accepts) ==
  Outcome("_ParseRecord",
          IF ParseRecordError(key, structure) # NoError
          THEN ParseRecordError(key, structure)
          ELSE IF key = "section_end_exit_status"
          THEN ProduceError(accepts) ELSE NoError,
          Some([key |-> key, structure |-> structure]))

\* The plugin handles one matched line.
ParseRecord(key, structure, accepts) ==
  /\ ParseRecordOf(key, structure, accepts)
  /\ result' = ParseRecordResult(key, structure, accepts)
  /\ UNCHANGED <<base_vars, event_data, reader_vars, stream_event>>

----------------------------------------------------------------------------
(* SpecChain: the parser chain operations in any order *)

NextChain ==
  \/ \E name \in ParserNames :
       /\ Len(parser_chain_components) < MaxChain
       /\ AppendToParserChain(name)
  \/ PopFromParserChain
  \/ ClearParserChain
  \/ GetParserChain

SpecChain == Init /\ [][NextChain]_vars

(* C1: GetParserChain returns the '/'-joined string of the current chain    *)
(* components in push order, the empty string for an empty chain, and the   *)
(* cached string is never one computed before a mutation: whenever a cached *)
(* string is held it is the join of the current components.                 *)
C1_GetParserChainIsJoin ==
  /\ result.op = "GetParserChain" =>
       result.value = Some(JoinChain(parser_chain_components))
  /\ cached_parser_chain # None =>
       ValueOf(cached_parser_chain) = JoinChain(parser_chain_components)
  /\ ParserChainValue = JoinChain(parser_chain_components)
  /\ (parser_chain_components = <<>> => ParserChainValue = "")
  /\ (parser_chain_components = <<"text", "setupapi">> =>
        ParserChainValue = "text/setupapi")

\* GetParserChain has returned "text/setupapi" after pushes and a pop.
C1_Witness ==
  /\ result.op = "GetParserChain"
  /\ result.value = Some("text/setupapi")
  /\ parser_chain_components = <<"text", "setupapi">>

----------------------------------------------------------------------------
(* Spec: the operations that hand containers to the storage writer, in     *)
(* any order, with and without a storage writer, under an advancing clock. *)

Next ==
  \/ \E writer \in {None, Some("writer")} : SetStorageWriter(writer)
  \/ \E accepts \in BOOLEAN :
       Len(storage) < MaxContainers /\ ProduceEventData(accepts)
  \/ \E stream \in {None, Some(None)}, accepts \in BOOLEAN :
       Len(storage) < MaxContainers
         /\ ProduceEventDataStream(stream, accepts)
  \/ \E accepts \in BOOLEAN :
       Len(storage) < MaxContainers /\ ProduceEventSource(accepts)
  \/ \E accepts \in BOOLEAN :
       /\ Len(storage) < MaxContainers
       /\ ProduceExtractionWarning("unable to parse", None, accepts)
  \/ \E accepts \in BOOLEAN :
       /\ Len(storage) < MaxContainers
       /\ ProduceRecoveryWarning("recovered", None, accepts)
  \/ \E accepts \in BOOLEAN :
       Len(storage) < MaxContainers /\ AddYearLessLogHelper(accepts)
  \/ clock < MaxClock /\ Tick

Spec == Init /\ [][Next]_vars

----------------------------------------------------------------------------
(* SpecEventData: parsers that push and pop the parser chain and produce   *)
(* event data objects, new ones and ones produced before.                  *)

\* The parser values of the event data objects parsers create.
PresetParsers == {None, Some("custom")}

\* The text parser is pushed first and its plugins after it.
NameAtDepth(depth) == IF depth = 0 THEN "text" ELSE "setupapi"

NextEventData ==
  \/ SetStorageWriter(Some("writer"))
  \/ \E accepts \in BOOLEAN :
       Len(storage) < MaxProduced /\ ProduceEventData(accepts)
  \/ /\ Len(parser_chain_components) < MaxDepth
     /\ AppendToParserChain(NameAtDepth(Len(parser_chain_components)))
  \/ Len(parser_chain_components) > 0 /\ PopFromParserChain
  \/ GetParserChain
  \/ \E parser \in PresetParsers : NewEventData(parser)

SpecEventData == Init /\ [][NextEventData]_vars

----------------------------------------------------------------------------
(* SpecStream: event data streams and event data produced while the active *)
(* file entry changes.                                                     *)

NextStream ==
  \/ SetStorageWriter(Some("writer"))
  \/ \E accepts \in BOOLEAN :
       Len(storage) < MaxStored /\ ProduceEventData(accepts)
  \/ \E stream \in {None, Some(None), Some(MuiPathSpec)},
        accepts \in BOOLEAN :
       Len(storage) < MaxStored /\ ProduceEventDataStream(stream, accepts)
  \/ SetFileEntry(LogFileEntry)
  \/ ResetFileEntry
  \/ NewEventData(None)

SpecStream == Init /\ [][NextStream]_vars

----------------------------------------------------------------------------
(* SpecContract: the operations of the mediator's public contract on a     *)
(* mediator that was never given a storage writer.                         *)

LanguageTagArguments ==
  {None, Some("en-US"), Some("is-IS"), Some("not-a-tag"), NonString("1033")}

TimeZoneArguments ==
  {None, Some(""), Some("UTC"), Some("Europe/Amsterdam"),
   Some("Nowhere/Fake")}

FileEntries == {LogFileEntry, MuiFileEntry, StreamFileEntry}

NextContract ==
  \/ /\ Len(parser_chain_components) < MaxDepth
     /\ AppendToParserChain("setupapi")
  \/ PopFromParserChain
  \/ ClearParserChain
  \/ GetParserChain
  \/ \E entry \in FileEntries : SetFileEntry(entry)
  \/ ResetFileEntry
  \/ \E entry \in {None, LogFileEntry, StreamFileEntry} :
       GetDisplayName(entry)
  \/ GetWindowsEventLogMessageFile
  \/ \E tag \in LanguageTagArguments : SetPreferredLanguage(tag)
  \/ \E name \in TimeZoneArguments : SetPreferredTimeZone(name)
  \/ SignalAbort
  \/ ProduceEventData(TRUE)
  \/ \E stream \in {None, Some(None)} : ProduceEventDataStream(stream, TRUE)
  \/ ProduceEventSource(TRUE)
  \/ ProduceExtractionWarning("unable to parse", None, TRUE)
  \/ ProduceRecoveryWarning("recovered", None, TRUE)

SpecContract == Init /\ [][NextContract]_vars

----------------------------------------------------------------------------
(* SpecPlugin: the plugin handles matched lines in any order, on a         *)
(* mediator that is given its storage writer at some point.                *)

MaxSections == 2

EntryTypes == {"Device Install - X", "Sysprep Respecialize - Y"}

\* The time elements of matched lines: a date and one that is no date.
TimeElementsTuples ==
  {<<2015, 11, 22, 17, 59, 28, 110>>, <<2015, 2, 30, 17, 59, 28, 110>>}

ExitStatuses == {"SUCCESS"}

NextPlugin ==
  \/ SetStorageWriter(Some("writer"))
  \/ ParseRecord("ignorable_line", EmptyStructure, TRUE)
  \/ \E entry_type \in EntryTypes :
       ParseRecord("section_header",
                   Structure(Some(entry_type), None, None, None), TRUE)
  \/ \E elements \in TimeElementsTuples :
       ParseRecord("section_start",
                   Structure(None, Some(elements), None, None), TRUE)
  \/ \E elements \in TimeElementsTuples :
       ParseRecord("section_end",
                   Structure(None, None, Some(elements), None), TRUE)
  \/ \E exit_status \in ExitStatuses, accepts \in BOOLEAN :
       /\ Len(storage) < MaxSections
       /\ ParseRecord("section_end_exit_status",
                      Structure(None, None, None, Some(exit_status)),
                      accepts)

SpecPlugin == Init /\ [][NextPlugin]_vars

(* C2: a step of the plugin submits a container only when it handles a      *)
(* section_end_exit_status line while a section is open, and then exactly   *)
(* one event data container, counted once; handling an ignorable_line,      *)
(* section_header, section_start or section_end line submits nothing, and   *)
(* so does an exit status line while no section is open.                    *)
C2_SubmitsOncePerExitStatus ==
  [][result'.op = "_ParseRecord" =>
       IF /\ ValueOf(result'.value).key = "section_end_exit_status"
          /\ plugin_event_data # None
          /\ result'.error = NoError
       THEN /\ Len(storage') = Len(storage) + 1
            /\ storage'[Len(storage')].kind = "event_data"
            /\ number_of_event_data' = number_of_event_data + 1
            /\ plugin_event_data' = None
       ELSE /\ UNCHANGED <<storage, mediator_counters>>
            /\ (ValueOf(result'.value).key = "section_end_exit_status"
                  /\ plugin_event_data # None)
                 => result'.error \in {NotReady, StorageError}]_vars

\* The exit status line of a second complete section was handled: two
\* containers were submitted, one per section.
C2_Witness ==
  /\ result.op = "_ParseRecord"
  /\ ValueOf(result.value).key = "section_end_exit_status"
  /\ result.error = NoError
  /\ Len(storage) = 2
  /\ number_of_event_data = 2
  /\ storage[1].body.end_time # None
  /\ storage[2].body.end_time # None

----------------------------------------------------------------------------
(* The grammar of the SetupAPI plugin, on one line of text.  A location is  *)
(* the 1-based position of the next character; an expression gives the     *)
(* location after its match, or NoMatch where pyparsing raises              *)
(* ParseException.                                                          *)

NoMatch == 0

\* The characters pyparsing skips before a token, within a line.
WhiteChars == " \t\r"

Alphas == UpperCaseLetters \o LowerCaseLetters

RECURSIVE SkipWhitespace(_, _)
SkipWhitespace(s, loc) ==
  IF loc <= Len(s) /\ CharIn(CharAt(s, loc), WhiteChars)
  THEN SkipWhitespace(s, loc + 1) ELSE loc

\* pyparsing.Literal(match_string), also as pyparsing.Suppress(match_string)
Literal(s, loc, match_string) ==
  IF loc = NoMatch THEN NoMatch
  ELSE IF StartsWithAt(s, SkipWhitespace(s, loc), match_string)
  THEN SkipWhitespace(s, loc) + Len(match_string)
  ELSE NoMatch

RECURSIVE EndOfChars(_, _, _)
\* The location after the characters of chars that start at loc.
EndOfChars(s, loc, chars) ==
  IF loc <= Len(s) /\ CharIn(CharAt(s, loc), chars)
  THEN EndOfChars(s, loc + 1, chars) ELSE loc

\* pyparsing.Word(chars, min=min, max=max); exact=n is min = max = n.  A
\* word followed by one more of its characters does not match.
Word(s, loc, chars, min, max) ==
  IF loc = NoMatch THEN NoMatch
  ELSE LET start == SkipWhitespace(s, loc)
           end == EndOfChars(s, start, chars)
       IN IF end - start >= min /\ end - start <= max
          THEN end ELSE NoMatch

RECURSIVE EndOfCharsNotIn(_, _, _)
EndOfCharsNotIn(s, loc, not_chars) ==
  IF loc <= Len(s) /\ ~CharIn(CharAt(s, loc), not_chars)
  THEN EndOfCharsNotIn(s, loc + 1, not_chars) ELSE loc

\* pyparsing.CharsNotIn(not_chars): at least one character, and no
\* whitespace is skipped before it.
CharsNotIn(s, loc, not_chars) ==
  IF loc = NoMatch THEN NoMatch
  ELSE IF EndOfCharsNotIn(s, loc, not_chars) > loc
  THEN EndOfCharsNotIn(s, loc, not_chars)
  ELSE NoMatch

\* pyparsing.oneOf(strings): the longest of the strings found at loc.
OneOf(s, loc, strings) ==
  IF loc = NoMatch THEN NoMatch
  ELSE LET start == SkipWhitespace(s, loc)
           found == {x \in strings : StartsWithAt(s, start, x)}
       IN IF found = {} THEN NoMatch
          ELSE start + Len(CHOOSE x \in found :
                             \A y \in found : Len(y) <= Len(x))

\* pyparsing.Optional(expression), given the locations before and after
\* the expression.
Optional(loc, after) ==
  IF loc # NoMatch /\ after = NoMatch THEN loc ELSE after

\* pyparsing.restOfLine()
RestOfLine(s, loc) == IF loc = NoMatch THEN NoMatch ELSE Len(s) + 1

\* _END_OF_LINE
END_OF_LINE(s, loc) ==
  IF loc = NoMatch THEN NoMatch
  ELSE IF SkipWhitespace(s, loc) = Len(s) + 1 THEN Len(s) + 1
  ELSE NoMatch

DigitValue(c) == CHOOSE d \in 0..9 : CharAt(Digits, d + 1) = c

RECURSIVE ToInt(_)
\* int(tokens[0], 10)
ToInt(digits) ==
  IF Len(digits) = 0 THEN 0
  ELSE ToInt(SubSeq(digits, 1, Len(digits) - 1)) * 10
         + DigitValue(CharAt(digits, Len(digits)))

\* _TWO_DIGITS, _THREE_DIGITS and _FOUR_DIGITS, by their number of digits.
DIGITS(s, loc, exact) == Word(s, loc, Digits, exact, exact)

\* The token of the digits that end before the location end.
DigitsToken(s, end, exact) == ToInt(SubSeq(s, end - exact, end - 1))

\* _DATE_TIME: the location after it and the group of its seven numbers.
DATE_TIME(s, loc) ==
  LET year == DIGITS(s, loc, 4)
      month == DIGITS(s, Literal(s, year, "/"), 2)
      day_of_month == DIGITS(s, Literal(s, month, "/"), 2)
      hours == DIGITS(s, day_of_month, 2)
      minutes == DIGITS(s, Literal(s, hours, ":"), 2)
      seconds == DIGITS(s, Literal(s, minutes, ":"), 2)
      milliseconds == DIGITS(s, Word(s, seconds, ".,", 1, 1), 3)
  IN [loc |-> milliseconds,
      tokens |->
        IF milliseconds = NoMatch THEN None
        ELSE Some(<<DigitsToken(s, year, 4), DigitsToken(s, month, 2),
                    DigitsToken(s, day_of_month, 2),
                    DigitsToken(s, hours, 2), DigitsToken(s, minutes, 2),
                    DigitsToken(s, seconds, 2),
                    DigitsToken(s, milliseconds, 3)>>)]

\* A line expression gives None, or Some structure of its named results.
Matched(loc, structure) ==
  IF loc = NoMatch THEN None ELSE Some(structure)

LOG_HEADER_START_LINE(s, loc) ==
  Matched(END_OF_LINE(s, Literal(s, loc, "[Device Install Log]")),
          EmptyStructure)

LOG_HEADER_BODY_LINE(s, loc) ==
  Matched(
    END_OF_LINE(s, RestOfLine(s, Literal(s,
      OneOf(s, loc, {"Architecture", "OS Version", "ProductType",
                     "Service Pack", "Suite"}), "="))),
    EmptyStructure)

LOG_HEADER_END_LINE(s, loc) ==
  Matched(END_OF_LINE(s, Literal(s, loc, "[BeginLog]")), EmptyStructure)

SECTION_HEADER_LINE(s, loc) ==
  LET open == Literal(s, loc, ">>>  [")
      entry_type == CharsNotIn(s, open, "]")
  IN Matched(END_OF_LINE(s, Literal(s, entry_type, "]")),
             Structure(Some(SubSeq(s, open, entry_type - 1)),
                       None, None, None))

SECTION_HEADER_START_LINE(s, loc) ==
  LET start_time == DATE_TIME(s, Literal(s, loc, ">>>  Section start"))
  IN Matched(END_OF_LINE(s, start_time.loc),
             Structure(None, start_time.tokens, None, None))

SECTION_END_LINE(s, loc) ==
  LET end_time == DATE_TIME(s, Literal(s, loc, "<<<  Section end "))
  IN Matched(END_OF_LINE(s, end_time.loc),
             Structure(None, None, end_time.tokens, None))

SECTION_END_EXIT_STATUS_LINE(s, loc) ==
  LET open == Literal(s, loc, "<<<  [Exit status: ")
      exit_status == CharsNotIn(s, open, "]")
  IN Matched(END_OF_LINE(s, Literal(s, exit_status, "]")),
             Structure(None, None, None,
                       Some(SubSeq(s, open, exit_status - 1))))

ENTRY_PREFIX(s, loc) == OneOf(s, loc, {".", "!!!", "!"})

EVENT_CATEGORY(s, loc) ==
  Literal(s, Word(s, loc, Alphas \o ".", 2, 3), ":")

SECTION_BODY_OR_NON_SECTION_LINE(s, loc) ==
  Matched(
    END_OF_LINE(s, RestOfLine(s,
      EVENT_CATEGORY(s, Optional(loc, ENTRY_PREFIX(s, loc))))),
    EmptyStructure)

BOOT_SESSION_LINE(s, loc) ==
  Matched(
    END_OF_LINE(s, Literal(s,
      DATE_TIME(s, Literal(s, loc, "[Boot Session:")).loc, "]")),
    EmptyStructure)

\* The keys of _LINE_STRUCTURES, in its order.
LINE_STRUCTURES ==
  <<"ignorable_line", "ignorable_line", "ignorable_line", "ignorable_line",
    "ignorable_line", "section_end", "section_end_exit_status",
    "section_header", "section_start">>

\* The expression of _LINE_STRUCTURES[index], matched at the start of a line.
LineStructure(index, s) ==
  CASE index = 1 -> BOOT_SESSION_LINE(s, 1)
    [] index = 2 -> LOG_HEADER_END_LINE(s, 1)
    [] index = 3 -> LOG_HEADER_START_LINE(s, 1)
    [] index = 4 -> LOG_HEADER_BODY_LINE(s, 1)
    [] index = 5 -> SECTION_BODY_OR_NON_SECTION_LINE(s, 1)
    [] index = 6 -> SECTION_END_LINE(s, 1)
    [] index = 7 -> SECTION_END_EXIT_STATUS_LINE(s, 1)
    [] index = 8 -> SECTION_HEADER_LINE(s, 1)
    [] index = 9 -> SECTION_HEADER_START_LINE(s, 1)

VERIFICATION_GRAMMAR(s, loc) == LOG_HEADER_START_LINE(s, loc)

\* The text parser tries the line structures in their order and the first
\* that matches wins: None, or Some key and structure.
MatchLine(s) ==
  LET matching ==
        {index \in 1..Len(LINE_STRUCTURES) : LineStructure(index, s) # None}
      first == CHOOSE index \in matching :
                 \A other \in matching : index <= other
  IN IF matching = {} THEN None
     ELSE Some([key |-> LINE_STRUCTURES[first],
                structure |-> ValueOf(LineStructure(first, s))])

RECURSIVE OffsetOfLine(_, _)
\* The offset in the buffer of the first character of line number index,
\* every line before it ending with one end-of-line character.
OffsetOfLine(lines, index) ==
  IF index = 1 THEN 0
  ELSE OffsetOfLine(lines, index - 1) + Len(lines[index - 1]) + 1

\* _VerifyString(text_reader.lines): None where it raises ParseError, else
\* Some offset at which the verification grammar first matches, leading
\* whitespace not being part of a match.
VerifyString(lines) ==
  LET positions ==
        UNION {{<<index, loc>> : loc \in 1..Len(lines[index])} :
                 index \in 1..Len(lines)}
      matches ==
        {position \in positions :
           /\ SkipWhitespace(lines[position[1]], position[2]) = position[2]
           /\ VERIFICATION_GRAMMAR(lines[position[1]], position[2]) # None}
      starts == {OffsetOfLine(lines, position[1]) + position[2] - 1 :
                   position \in matches}
  IN IF matches = {} THEN None
     ELSE Some(CHOOSE start \in starts : \A other \in starts : start <= other)

\* Mutant: a match of the verification grammar anywhere is accepted.
CheckRequiredFormatResult_AnyOffset == VerifyString(text_lines) # None

\* What CheckRequiredFormat returns.
CheckRequiredFormatResult ==
  /\ VerifyString(text_lines) # None
  /\ ValueOf(VerifyString(text_lines)) = 0

\* CheckRequiredFormat(parser_mediator, text_reader), on a file that was not
\* checked yet: the state is reset only where the format is accepted.
CheckRequiredFormat ==
  /\ format_accepted = None
  /\ format_accepted' = Some(CheckRequiredFormatResult)
  /\ IF CheckRequiredFormatResult THEN ResetState
     ELSE UNCHANGED plugin_event_data
  /\ result' = Outcome("CheckRequiredFormat", NoError,
                       Some(CheckRequiredFormatResult))
  /\ UNCHANGED <<mediator_vars, collaborator_vars, event_data, text_lines,
                 line_index, stream_event>>

\* Whether the text parser stopped at a line, with an error it does not
\* turn into a warning.
Interrupted == result.op = "_ParseLines" /\ result.error # NoError

\* Whether the text parser turns the next line into an extraction warning:
\* no line structure matches it, or _ParseRecord raises ParseError.
IsWarned(match) ==
  \/ match = None
  \/ ParseRecordError(ValueOf(match).key, ValueOf(match).structure)
       = ParseError

ParseLineError(match, accepts) ==
  IF IsWarned(match) THEN ProduceError(accepts)
  ELSE ParseRecordResult(ValueOf(match).key, ValueOf(match).structure,
                         accepts).error

\* The text parser handles the next line of the file: the first line
\* structure that matches it goes to _ParseRecord, a line that cannot be
\* parsed becomes an extraction warning, and the parser moves to the next
\* line unless an error ends the parsing.
ParseLineOf(match, accepts) ==
  /\ IF IsWarned(match)
     THEN /\ ProduceExtractionWarningOf("unable to parse log line", None,
                                        accepts)
          /\ UNCHANGED plugin_event_data
     ELSE ParseRecordOf(ValueOf(match).key, ValueOf(match).structure,
                        accepts)
  /\ result' = Outcome("_ParseLines", ParseLineError(match, accepts), match)
  /\ line_index' =
       IF ParseLineError(match, accepts) = NoError
       THEN line_index + 1 ELSE line_index
  /\ UNCHANGED <<base_vars, event_data, text_lines, format_accepted,
                 stream_event>>

ParseLine(accepts) ==
  /\ format_accepted = Some(TRUE)
  /\ line_index < Len(text_lines)
  /\ ~Interrupted
  /\ ParseLineOf(MatchLine(text_lines[line_index + 1]), accepts)

----------------------------------------------------------------------------
(* SpecFile: a file is checked and then parsed line by line, on a mediator  *)
(* that was set up before.                                                  *)

\* One well-formed section after the header of the log.
ScenarioFile ==
  <<"[Device Install Log]",
    "OS Version = 10.0",
    "[BeginLog]",
    ">>>  [Device Install - X]",
    ">>>  Section start 2015/11/22 17:59:28.110",
    "<<<  Section end 2015/11/22 17:59:29.200",
    "<<<  [Exit status: SUCCESS]">>

\* A section that a second section header interrupts.
InterruptedFile ==
  <<"[Device Install Log]",
    ">>>  [Device Install - X]",
    ">>>  Section start 2015/11/22 17:59:28.110",
    ">>>  [Sysprep Respecialize - Y]",
    ">>>  Section start 2015/11/23 08:00:00.001",
    "<<<  Section end 2015/11/23 08:00:01.002",
    "<<<  [Exit status: FAILURE(0x00000490)]">>

\* Body lines, a line no structure matches, a date that is none, and an
\* exit status after the end of its section.
BodyFile ==
  <<"[Device Install Log]",
    "[Boot Session: 2015/11/22 17:59:20.500]",
    ">>>  [Device Install - X]",
    ">>>  Section start 2015/02/30 17:59:28.110",
    "     dvi: Set selected driver complete.",
    "!!!  sto: Failed",
    "unmatched line",
    "<<<  Section end 2015/11/22 17:59:29.200",
    "<<<  [Exit status: FAILURE(0x00000490)]",
    "<<<  [Exit status: SUCCESS]">>

\* The header of the log on the second line only.
LateHeaderFile == <<"[BeginLog]", "[Device Install Log]">>

\* The header of the log after white space.
IndentedFile == <<"  [Device Install Log]", "[BeginLog]">>

\* No header of the log at all.
NoHeaderFile == <<"[BeginLog]", ">>>  [Device Install - X]">>

\* The header of the log with other text after it on its line.
TrailingTextFile == <<"[Device Install Log] 1.0", "[BeginLog]">>

\* A file that ends within a section.
TruncatedFile ==
  <<"[Device Install Log]   ",
    ">>>  [Device Install - X]",
    ">>>  Section start 2015/11/22 17:59:28.110">>

Files ==
  {ScenarioFile, InterruptedFile, BodyFile, LateHeaderFile, IndentedFile,
   NoHeaderFile, TrailingTextFile, TruncatedFile}

InitFile == \E lines \in Files : InitWith(DefaultKnowledgeBase, lines)

NextFile ==
  \/ /\ format_accepted = None
     /\ SetStorageWriter(Some("writer"))
  \/ /\ format_accepted = None
     /\ Len(parser_chain_components) < MaxDepth
     /\ AppendToParserChain(NameAtDepth(Len(parser_chain_components)))
  \/ CheckRequiredFormat
  \/ \E accepts \in BOOLEAN : ParseLine(accepts)

SpecFile == InitFile /\ [][NextFile]_vars

\* The date and time value of a time elements tuple in local time.
LocalTime(time_elements_tuple) ==
  Some([time_elements_tuple |-> time_elements_tuple,
        is_local_time |-> TRUE])

(* C3: in the line sequence header1, start1, header2, start2, end2, exit2,  *)
(* the second section header discards the unfinished record of the first:   *)
(* nothing is submitted before the exit status line, and that line submits   *)
(* exactly one record, with the entry type, start time, end time and exit   *)
(* status of header2, start2, end2 and exit2.                               *)
C3_InterruptedSectionIsDiscarded ==
  text_lines = InterruptedFile =>
    /\ line_index < Len(InterruptedFile) => storage = <<>>
    /\ line_index = Len(InterruptedFile) =>
         /\ Len(storage) = 1
         /\ storage[1].kind = "event_data"
         /\ storage[1].body.entry_type = Some("Sysprep Respecialize - Y")
         /\ storage[1].body.start_time =
              LocalTime(<<2015, 11, 23, 8, 0, 0, 1>>)
         /\ storage[1].body.end_time =
              LocalTime(<<2015, 11, 23, 8, 0, 1, 2>>)
         /\ storage[1].body.exit_status = Some("FAILURE(0x00000490)")
         /\ number_of_event_data = 1

\* The interrupted file was parsed to its end and its record submitted.
C3_Witness ==
  /\ text_lines = InterruptedFile
  /\ line_index = Len(InterruptedFile)
  /\ result.op = "_ParseLines"
  /\ result.error = NoError
  /\ Len(storage) = 1
  /\ storage[1].body.entry_type = Some("Sysprep Respecialize - Y")

(* C4: CheckRequiredFormat accepts the seven-line scenario; its three       *)
(* header lines produce nothing and leave no record in progress, and        *)
(* processing the seven lines in order submits exactly one record, with     *)
(* entry_type 'Device Install - X', start_time (2015,11,22,17,59,28,110)    *)
(* in local time, end_time (2015,11,22,17,59,29,200) in local time and      *)
(* exit_status 'SUCCESS'.                                                   *)
C4_ScenarioSubmitsOneRecord ==
  text_lines = ScenarioFile =>
    /\ format_accepted \in {None, Some(TRUE)}
    /\ line_index <= 3 => plugin_event_data = None
    /\ line_index < 7 => storage = <<>>
    /\ line_index = 7 =>
         /\ Len(storage) = 1
         /\ storage[1].kind = "event_data"
         /\ storage[1].body.entry_type = Some("Device Install - X")
         /\ storage[1].body.start_time =
              LocalTime(<<2015, 11, 22, 17, 59, 28, 110>>)
         /\ storage[1].body.end_time =
              LocalTime(<<2015, 11, 22, 17, 59, 29, 200>>)
         /\ storage[1].body.exit_status = Some("SUCCESS")
         /\ number_of_event_data = 1

\* The scenario was accepted and parsed to its end.
C4_Witness ==
  /\ text_lines = ScenarioFile
  /\ format_accepted = Some(TRUE)
  /\ line_index = 7
  /\ result.op = "_ParseLines"
  /\ result.error = NoError
  /\ storage[1].body.exit_status = Some("SUCCESS")

----------------------------------------------------------------------------
(* Claims about the Produce operations *)

ProduceOps ==
  {"ProduceEventData", "ProduceEventDataStream", "ProduceEventSource",
   "ProduceExtractionWarning", "ProduceRecoveryWarning"}

\* The operations of the public contract that are not Produce operations.
OtherContractOps ==
  {"AppendToParserChain", "PopFromParserChain", "ClearParserChain",
   "GetParserChain", "SetFileEntry", "GetDisplayName",
   "GetWindowsEventLogMessageFile", "SetPreferredLanguage",
   "SetPreferredTimeZone", "SignalAbort"}

\* Number of containers of the given kinds the storage writer accepted.
Stored(kinds) ==
  Cardinality({i \in 1..Len(storage) : storage[i].kind \in kinds})

(* C5: while no storage writer is attached, a step of ProduceEventData,     *)
(* ProduceEventDataStream (with a stream or with None), ProduceEventSource, *)
(* ProduceExtractionWarning or ProduceRecoveryWarning fails with NotReady   *)
(* and leaves the counters, the active stream identifier, the heartbeat     *)
(* timestamp, the passed event data object and the storage unchanged.       *)
C5_NotReadyChangesNothing ==
  [][(storage_writer = None /\ result'.op \in ProduceOps) =>
       /\ result'.error = NotReady
       /\ UNCHANGED <<mediator_counters, event_data_stream_identifier,
                      last_activity_timestamp, event_data, storage,
                      mediator_chain>>]_vars

\* A Produce operation failed with NotReady on a mediator that had produced
\* event data for a stream before its storage writer was taken away.
C5_Witness ==
  /\ storage_writer = None
  /\ result.op \in ProduceOps
  /\ result.error = NotReady
  /\ number_of_event_data > 0
  /\ event_data_stream_identifier # None
  /\ last_activity_timestamp > 1

(* C6, as claimed: every operation of the public contract, the Produce      *)
(* operations and the others alike, fails with NotReady when no storage     *)
(* writer is attached.                                                      *)
C6_AllOperationsNotReady ==
  (storage_writer = None /\ result.op \in ProduceOps \cup OtherContractOps)
    => result.error = NotReady

(* C6, amended: when no storage writer is attached the Produce operations   *)
(* fail with NotReady, and no other operation of the public contract does:  *)
(* AppendToParserChain, PopFromParserChain, ClearParserChain,               *)
(* GetParserChain, SetFileEntry, GetDisplayName,                            *)
(* GetWindowsEventLogMessageFile, SetPreferredLanguage,                     *)
(* SetPreferredTimeZone and SignalAbort complete or fail with an error of   *)
(* their own.                                                               *)
C6_OnlyProduceNotReady ==
  storage_writer = None =>
    /\ result.op \in ProduceOps => result.error = NotReady
    /\ result.op \in OtherContractOps => result.error # NotReady
    /\ result.op \in {"AppendToParserChain", "ClearParserChain",
                      "GetParserChain", "SetFileEntry", "SignalAbort"}
         => result.error = NoError

\* SetFileEntry completed on a mediator without a storage writer.
C6_Witness ==
  /\ storage_writer = None
  /\ result.op = "SetFileEntry"
  /\ result.error = NoError
  /\ file_entry = LogFileEntry

(* C7, as claimed: after any sequence of operations the sum of the per-kind *)
(* counters equals the number of containers submitted to storage.           *)
C7_CountersCountEveryContainer == SumOfCounters = Len(storage)

(* C7, amended: every event data, event source, extraction warning and      *)
(* recovery warning container submitted increments its own counter by one   *)
(* and no other, so each counter equals the number of containers of its     *)
(* kind in storage; event data streams and year-less log helpers are        *)
(* submitted without incrementing any counter, so the sum of the counters   *)
(* equals the number of submitted containers of the four counted kinds.     *)
C7_CountersCountTheirKind ==
  /\ number_of_event_data = Stored({"event_data"})
  /\ number_of_event_sources = Stored({"event_source"})
  /\ number_of_extraction_warnings = Stored({"extraction_warning"})
  /\ number_of_recovery_warnings = Stored({"recovery_warning"})
  /\ SumOfCounters =
       Len(storage) - Stored({"event_data_stream", "year_less_log_helper"})

\* An event data stream, an event data and a recovery warning container were
\* submitted: three containers, two of them counted.
C7_Witness ==
  /\ Len(storage) = 3
  /\ Stored({"event_data_stream"}) = 1
  /\ number_of_event_data = 1
  /\ number_of_recovery_warnings = 1
  /\ SumOfCounters = 2

(* C8: a successful Produce step sets last_activity_timestamp to the clock  *)
(* value of that step, a failed one (no storage writer, or the storage      *)
(* writer raising) leaves the timestamp and the counters unchanged, no      *)
(* other operation changes the timestamp, and under the non-decreasing      *)
(* clock the timestamp never decreases.                                     *)
C8_HeartbeatFollowsProduce ==
  [][/\ (result'.op \in ProduceOps /\ result'.error = NoError)
          => last_activity_timestamp' = clock
     /\ (result'.op \in ProduceOps /\ result'.error # NoError)
          => UNCHANGED <<last_activity_timestamp, mediator_counters>>
     /\ result'.op \notin ProduceOps => UNCHANGED last_activity_timestamp
     /\ last_activity_timestamp' >= last_activity_timestamp
     /\ last_activity_timestamp' <= clock']_vars

\* A Produce operation succeeded after the clock advanced twice and after an
\* earlier container: the heartbeat is the current clock value.
C8_Witness ==
  /\ result.op \in ProduceOps
  /\ result.error = NoError
  /\ clock = 3
  /\ last_activity_timestamp = 3
  /\ Len(storage) >= 2

(* C9, as claimed: ProduceEventData never changes a parser field that is    *)
(* set, also when the same object is produced again after the parser chain  *)
(* changed.                                                                 *)
C9_SetParserIsKept ==
  [][(result'.op = "ProduceEventData" /\ event_data.parser # None)
       => event_data'.parser = event_data.parser]_vars

(* C9, amended: ProduceEventData fills the parser field from the current    *)
(* parser chain when the field is unset or holds the empty string, and      *)
(* keeps a parser field that holds a non-empty string, also when the        *)
(* current chain differs; an object whose parser field was filled with the  *)
(* empty string, produced while the chain was empty, is filled again from   *)
(* the chain when it is produced again.                                     *)
C9_NonEmptyParserIsKept ==
  [][(result'.op = "ProduceEventData" /\ result'.error # NotReady) =>
       IF event_data.parser \in {None, Some("")}
       THEN event_data'.parser = Some(JoinChain(parser_chain_components))
       ELSE event_data'.parser = event_data.parser]_vars

\* An event data object created with parser "custom" was produced under the
\* parser chain "text/setupapi" and kept its parser value.
C9_Witness ==
  /\ result.op = "ProduceEventData"
  /\ result.error = NoError
  /\ event_data.parser = Some("custom")
  /\ parser_chain_components = <<"text", "setupapi">>
  /\ storage[Len(storage)].body.parser = Some("custom")

\* The index in storage of the event data stream produced last, 0 if none.
LastStreamIndex ==
  LET streams ==
        {i \in 1..Len(storage) : storage[i].kind = "event_data_stream"}
  IN IF streams = {} THEN 0
     ELSE CHOOSE i \in streams : \A j \in streams : j <= i

(* C10: a successful ProduceEventData attaches to the event data object the *)
(* identifier of the event data stream produced last, provided neither      *)
(* SetFileEntry nor ProduceEventDataStream(None) happened since that stream *)
(* was produced, and otherwise leaves the object's stream identifier as it  *)
(* was; the one active stream identifier is None or that of the stream      *)
(* produced last.                                                           *)
C10_ActiveStreamIsAttached ==
  [][/\ (result'.op = "ProduceEventData" /\ result'.error = NoError) =>
          /\ event_data'.stream_identifier =
               IF stream_event.kind = "stream"
               THEN Some(LastStreamIndex)
               ELSE event_data.stream_identifier
          /\ storage'[Len(storage')].body = event_data'
     /\ event_data_stream_identifier' =
          IF stream_event'.kind = "stream"
          THEN Some(LastStreamIndex') ELSE None]_vars

\* Event data was produced for the second of two streams.
C10_Witness ==
  /\ result.op = "ProduceEventData"
  /\ result.error = NoError
  /\ stream_event.kind = "stream"
  /\ storage[1].kind = "event_data_stream"
  /\ LastStreamIndex = 2
  /\ event_data.stream_identifier = Some(2)

(* C11: SetFileEntry(entry) sets the active file entry and clears the      *)
(* active stream identifier and changes nothing else of the mediator or of  *)
(* storage: parser chain, counters, heartbeat, language, time zone and the  *)
(* message file index are unchanged.  A ProduceEventData after SetFileEntry *)
(* and before the next ProduceEventDataStream of a stream attaches no       *)
(* stream identifier to the event data object.                              *)
C11_SetFileEntryFrame ==
  [][/\ result'.op = "SetFileEntry" =>
          /\ result'.error = NoError
          /\ file_entry' = LogFileEntry
          /\ event_data_stream_identifier' = None
          /\ UNCHANGED <<storage_writer, mediator_chain,
                         mediator_preferences, mediator_counters,
                         last_activity_timestamp, storage, event_data>>
     /\ (/\ result'.op = "ProduceEventData"
         /\ result'.error = NoError
         /\ stream_event.kind = "set_file_entry") =>
          /\ event_data'.stream_identifier = event_data.stream_identifier
          /\ storage'[Len(storage')].body.stream_identifier =
               event_data.stream_identifier]_vars

\* A stream was produced for one file, the file entry was set again and
\* new event data was produced: it carries no stream identifier.
C11_Witness ==
  /\ result.op = "ProduceEventData"
  /\ result.error = NoError
  /\ stream_event.kind = "set_file_entry"
  /\ file_entry = LogFileEntry
  /\ Len(storage) = 2
  /\ storage[1].kind = "event_data_stream"
  /\ storage[2].kind = "event_data"
  /\ storage[2].body.stream_identifier = None

(* C12: ProduceEventDataStream(None) clears the active stream identifier   *)
(* and submits nothing.  ProduceEventDataStream(stream) submits the stream  *)
(* exactly once, with its own path specification when it has one and else   *)
(* with that of the active file entry (none without an active file entry),  *)
(* and makes the identifier storage assigned to the stream the active one.  *)
C12_StreamIsSubmittedOnce ==
  [][(result'.op = "ProduceEventDataStream" /\ result'.error = NoError) =>
       IF result'.value = None
       THEN /\ event_data_stream_identifier' = None
            /\ UNCHANGED storage
       ELSE /\ storage' =
                 Append(storage,
                        Container("event_data_stream",
                                  IF ValueOf(result'.value) # None
                                  THEN ValueOf(result'.value)
                                  ELSE IF file_entry = None THEN None
                                  ELSE ValueOf(file_entry).path_spec))
            /\ event_data_stream_identifier' = Some(Len(storage'))]_vars

\* The three cases of a stream happened in turn: a stream without path
\* specification and without file entry, one that took the path
\* specification of the active file entry, and one that kept its own.
C12_Witness ==
  /\ result.op = "ProduceEventDataStream"
  /\ result.error = NoError
  /\ file_entry = LogFileEntry
  /\ Len(storage) = 3
  /\ storage[1] = Container("event_data_stream", None)
  /\ storage[2] = Container("event_data_stream", LogPathSpec)
  /\ storage[3] = Container("event_data_stream", MuiPathSpec)
  /\ event_data_stream_identifier = Some(3)

----------------------------------------------------------------------------
(* SpecWarning: warnings are produced while the parser chain and the       *)
(* active file entry change.                                               *)

MaxWarnings == 1

WarningMessages == {"unable to parse", "recovered"}

NextWarning ==
  \/ SetStorageWriter(Some("writer"))
  \/ /\ Len(parser_chain_components) < MaxDepth
     /\ AppendToParserChain(NameAtDepth(Len(parser_chain_components)))
  \/ PopFromParserChain
  \/ SetFileEntry(LogFileEntry)
  \/ ResetFileEntry
  \/ \E message \in WarningMessages, path_spec \in {None, MuiPathSpec},
        accepts \in BOOLEAN :
       /\ Len(storage) < MaxWarnings
       /\ ProduceExtractionWarning(message, path_spec, accepts)
  \/ \E message \in WarningMessages, path_spec \in {None, MuiPathSpec},
        accepts \in BOOLEAN :
       /\ Len(storage) < MaxWarnings
       /\ ProduceRecoveryWarning(message, path_spec, accepts)

SpecWarning == Init /\ [][NextWarning]_vars

\* The warning a call with the given arguments is to submit: the message,
\* the '/'-joined parser chain of the time of the call, and the given path
\* specification or else that of the active file entry, if there is one.
ExpectedWarning(message, path_spec) ==
  [message |-> message,
   parser_chain |-> JoinChain(parser_chain_components),
   path_spec |-> IF path_spec # None THEN path_spec
                 ELSE IF file_entry = None THEN None
                 ELSE ValueOf(file_entry).path_spec]

(* C13: a ProduceExtractionWarning or ProduceRecoveryWarning that returns  *)
(* submits exactly one warning, carrying the given message, the parser     *)
(* chain current at the call, and the given path specification or, when    *)
(* none is given, that of the active file entry (none without one); an     *)
(* extraction warning increments only the extraction warning counter and a *)
(* recovery warning only the recovery warning counter.                     *)
C13_WarningCarriesContext ==
  [][\A message \in WarningMessages, path_spec \in {None, MuiPathSpec} :
       /\ (/\ ProduceExtractionWarning(message, path_spec, TRUE)
           /\ result'.error = NoError) =>
            /\ storage' =
                 Append(storage,
                        Container("extraction_warning",
                                  ExpectedWarning(message, path_spec)))
            /\ number_of_extraction_warnings' =
                 number_of_extraction_warnings + 1
            /\ UNCHANGED <<number_of_event_data, number_of_event_sources,
                           number_of_recovery_warnings>>
       /\ (/\ ProduceRecoveryWarning(message, path_spec, TRUE)
           /\ result'.error = NoError) =>
            /\ storage' =
                 Append(storage,
                        Container("recovery_warning",
                                  ExpectedWarning(message, path_spec)))
            /\ number_of_recovery_warnings' =
                 number_of_recovery_warnings + 1
            /\ UNCHANGED <<number_of_event_data, number_of_event_sources,
                           number_of_extraction_warnings>>]_vars

\* A recovery warning without path specification was produced under a
\* parser chain of two parsers while a file entry was active.
C13_Witness ==
  /\ result.op = "ProduceRecoveryWarning"
  /\ result.error = NoError
  /\ Len(storage) = 1
  /\ storage[1].kind = "recovery_warning"
  /\ storage[1].body.parser_chain = "text/setupapi"
  /\ storage[1].body.path_spec = LogPathSpec
  /\ number_of_recovery_warnings = 1
  /\ number_of_extraction_warnings = 0

----------------------------------------------------------------------------
(* SpecIndex: message files are looked up while the active file entry      *)
(* changes, on mediators of knowledge bases with different provider lists. *)

\* A message file itself, a file in a directory that is no language tag,
\* and a message file on a file system with another separator.
ExactFileEntry ==
  Some(FileEntry("Foo.dll",
                 Some(PathSpec(Some("\\WINDOWS\\System32\\Foo.dll"), "\\"))))

OtherDirectoryFileEntry ==
  Some(FileEntry("Bar.exe.mui",
                 Some(PathSpec(Some("\\Program Files\\Bar\\xx-YY\\Bar.exe.mui"),
                               "\\"))))

SlashFileEntry ==
  Some(FileEntry("Bar.exe",
                 Some(PathSpec(Some("/Program Files/Bar/de-DE/Bar.exe"),
                               "/"))))

LookupFileEntries ==
  FileEntries \cup {ExactFileEntry, OtherDirectoryFileEntry, SlashFileEntry}

\* The provider lists: the default one, an empty one, one whose providers
\* have no message files, one where the shared file comes last, and one of
\* a single provider.
ProviderLists ==
  {<<ProviderFoo, ProviderBar, ProviderNone>>, <<>>, <<ProviderNone>>,
   <<ProviderBar, ProviderFoo>>, <<ProviderFoo>>}

InitIndex ==
  \E providers \in ProviderLists :
    InitWith(KnowledgeBase("", None, SystemRoot, providers), <<>>)

NextIndex ==
  \/ SetStorageWriter(Some("writer"))
  \/ GetWindowsEventLogMessageFile
  \/ \E entry \in LookupFileEntries : SetFileEntry(entry)
  \/ ResetFileEntry

SpecIndex == InitIndex /\ [][NextIndex]_vars

(* C14: over any sequence of GetWindowsEventLogMessageFile, SetFileEntry   *)
(* and ResetFileEntry calls the provider list is read at most once, on the *)
(* first GetWindowsEventLogMessageFile, also when the list is empty or no  *)
(* file entry is active then; the index exists from that call on, is never *)
(* changed or cleared afterwards, and the knowledge base is not changed.   *)
C14_IndexIsBuiltOnce ==
  [][/\ providers_read' <= 1
     /\ providers_read' = providers_read + 1 <=>
          /\ result'.op = "GetWindowsEventLogMessageFile"
          /\ windows_event_log_providers_per_path = None
     /\ windows_event_log_providers_per_path' # None <=>
          providers_read' = 1
     /\ windows_event_log_providers_per_path # None =>
          UNCHANGED windows_event_log_providers_per_path
     /\ result'.op \in {"SetFileEntry", "ResetFileEntry"} =>
          UNCHANGED <<windows_event_log_providers_per_path, providers_read>>
     /\ UNCHANGED knowledge_base]_vars

\* The index of an empty provider list was built without a file entry, and
\* a later lookup for a file entry did not read the providers again.
C14_Witness ==
  /\ knowledge_base.providers = <<>>
  /\ windows_event_log_providers_per_path = Some(<<>>)
  /\ providers_read = 1
  /\ file_entry = MuiFileEntry
  /\ result = Outcome("GetWindowsEventLogMessageFile", NoError, None)

----------------------------------------------------------------------------
(* SpecPreferences: the preferred language and time zone are set and read  *)
(* on mediators whose knowledge base holds a language or a time zone, or   *)
(* neither.                                                                *)

InitPreferences ==
  \E kb_language \in {"", "de-DE"},
     kb_timezone \in {None, Some("Europe/Amsterdam")} :
    InitWith(KnowledgeBase(kb_language, kb_timezone, SystemRoot, <<>>),
             <<>>)

NextPreferences ==
  \/ \E tag \in LanguageTagArguments : SetPreferredLanguage(tag)
  \/ language
  \/ \E name \in TimeZoneArguments : SetPreferredTimeZone(name)
  \/ timezone

SpecPreferences == InitPreferences /\ [][NextPreferences]_vars

\* Whether the stored locale identifier is the one of the stored language
\* tag, both being unset counting as corresponding.
LanguageCorresponds(tag, identifier) ==
  identifier = IF tag = None THEN None
               ELSE GetLCIDForLanguageTag(ValueOf(tag))

(* C15: a SetPreferredLanguage that fails leaves the stored language tag   *)
(* and locale identifier unchanged, one that succeeds replaces both        *)
(* together, and after every operation, reading the language property      *)
(* included, the stored locale identifier is the one that corresponds to   *)
(* the stored language tag.                                                *)
C15_LanguageStoredTogether ==
  [][/\ (result'.op = "SetPreferredLanguage" /\ result'.error # NoError) =>
          UNCHANGED <<language_tag, lcid>>
     /\ LanguageCorresponds(language_tag', lcid')]_vars

(* C16: SetPreferredLanguage(None) succeeds and resets the language to    *)
(* the default: the stored locale identifier is the default one (0x0409)   *)
(* and the language read that follows returns the default tag (en-US),     *)
(* whatever language was set before and whatever the knowledge base holds. *)
C16_NoneResetsToDefault ==
  [][/\ SetPreferredLanguage(None) =>
          /\ result'.error = NoError
          /\ lcid' = Some(DEFAULT_LCID)
     /\ (language_tag = None /\ language) =>
          /\ result'.value = Some(DEFAULT_LANGUAGE_TAG)
          /\ lcid' = Some(DEFAULT_LCID)]_vars

\* The time zone a read of the timezone property returns in this state.
EffectiveTimeZone ==
  IF time_zone # None THEN time_zone
  ELSE IF knowledge_base.timezone # None THEN knowledge_base.timezone
  ELSE Some(DEFAULT_TIME_ZONE)

(* C17: SetPreferredTimeZone with an unrecognized zone name fails with     *)
(* ValueError and leaves the effective time zone unchanged; with a valid   *)
(* zone name it succeeds and stores that zone, also over a zone that was   *)
(* read and cached before; a timezone read returns the stored zone and     *)
(* keeps it, and no operation but a successful SetPreferredTimeZone        *)
(* changes a stored zone, so that every read until then returns it.        *)
C17_TimeZoneIsKept ==
  [][/\ \A name \in TimeZoneArguments :
          SetPreferredTimeZone(name) =>
            IF Falsy(name) THEN result'.error = NoError
            ELSE IF ValueOf(name) \in {"UTC", "Europe/Amsterdam"}
            THEN /\ result'.error = NoError
                 /\ time_zone' = name
                 /\ EffectiveTimeZone' = name
            ELSE /\ result'.error = ValueError
                 /\ EffectiveTimeZone' = EffectiveTimeZone
     /\ result'.op = "timezone" =>
          /\ result'.value = EffectiveTimeZone
          /\ EffectiveTimeZone' = EffectiveTimeZone
     /\ (time_zone # None /\ time_zone' # time_zone) =>
          /\ result'.op = "SetPreferredTimeZone"
          /\ result'.error = NoError]_vars

\* A zone other than that of the knowledge base was set and the read after
\* it returned that zone.
C17_Witness ==
  /\ knowledge_base.timezone = Some("Europe/Amsterdam")
  /\ time_zone = Some("UTC")
  /\ result = Outcome("timezone", NoError, Some("UTC"))

\* The state right after SetPreferredTimeZone(None) or
\* SetPreferredTimeZone(''): only these succeed and store no zone.
AfterTimeZoneReset ==
  /\ result.op = "SetPreferredTimeZone"
  /\ result.error = NoError
  /\ time_zone = None

(* C18, as stated: SetPreferredTimeZone(None) and SetPreferredTimeZone('') *)
(* succeed and the timezone read that follows returns UTC, whatever zone   *)
(* was set before and whatever time zone the knowledge base holds.         *)
C18_ResetReadsUTC ==
  [][/\ \A name \in {None, Some("")} :
          SetPreferredTimeZone(name) => result'.error = NoError
     /\ (AfterTimeZoneReset /\ timezone) =>
          result'.value = Some(DEFAULT_TIME_ZONE)]_vars

(* C18, amended: SetPreferredTimeZone(None) and SetPreferredTimeZone('')   *)
(* succeed and clear the stored zone, whatever zone was set before; the    *)
(* timezone read that follows returns the time zone of the knowledge base  *)
(* when it holds one and UTC otherwise.                                    *)
C18_ResetReadsKnowledgeBaseOrUTC ==
  [][/\ \A name \in {None, Some("")} :
          SetPreferredTimeZone(name) =>
            /\ result'.error = NoError
            /\ time_zone' = None
     /\ (AfterTimeZoneReset /\ timezone) =>
          result'.value =
            IF knowledge_base.timezone # None THEN knowledge_base.timezone
            ELSE Some(DEFAULT_TIME_ZONE)]_vars

\* The time zone was reset on a mediator whose knowledge base holds a time
\* zone.
C18_Witness ==
  /\ AfterTimeZoneReset
  /\ knowledge_base.timezone = Some("Europe/Amsterdam")

HeaderMarker == "[Device Install Log]"

\* Whether the buffered lines start with the header marker followed by the
\* end of its line, after at most blanks.
MarkerAtOffsetZero(lines) ==
  /\ Len(lines) > 0
  /\ Len(lines[1]) >= Len(HeaderMarker)
  /\ SubSeq(lines[1], 1, Len(HeaderMarker)) = HeaderMarker
  /\ \A i \in (Len(HeaderMarker) + 1)..Len(lines[1]) :
       CharAt(lines[1], i) \in {" ", "\t", "\r"}

(* C19: CheckRequiredFormat returns true exactly when the verification     *)
(* pattern, [Device Install Log] followed by the end of the line, matches  *)
(* at offset zero of the buffered input; it returns false when the pattern *)
(* matches nowhere and when its first match is at another offset, as when  *)
(* the marker is on line 2 only.                                           *)
C19_AcceptsMarkerAtOffsetZero ==
  /\ format_accepted # None =>
       format_accepted = Some(MarkerAtOffsetZero(text_lines))
  /\ result.op = "CheckRequiredFormat" =>
       result.value = Some(MarkerAtOffsetZero(text_lines))
  /\ (format_accepted # None
        /\ text_lines \in {LateHeaderFile, IndentedFile, NoHeaderFile,
                           TrailingTextFile}) =>
       format_accepted = Some(FALSE)

\* The file with the marker on line 2 only was checked and rejected.
C19_Witness ==
  /\ text_lines = LateHeaderFile
  /\ VerifyString(text_lines) # None
  /\ result = Outcome("CheckRequiredFormat", NoError, Some(FALSE))
  /\ format_accepted = Some(FALSE)

----------------------------------------------------------------------------
(* SpecReuse: one plugin instance is given file after file, on a mediator    *)
(* without storage writer, so that the extraction stores nothing.           *)

\* Whether the text parser is done with the file: the plugin rejected it,
\* its last line was parsed, or an error ended the parsing.
FileDone ==
  \/ format_accepted = Some(FALSE)
  \/ format_accepted = Some(TRUE) /\ line_index = Len(text_lines)
  \/ Interrupted

\* The text parser hands the next file to the plugin: a new reader, the same
\* plugin instance.
OpenFile(lines) ==
  /\ FileDone
  /\ text_lines' = lines
  /\ line_index' = 0
  /\ format_accepted' = None
  /\ result' = Outcome("OpenFile", NoError, None)
  /\ UNCHANGED <<mediator_vars, collaborator_vars, event_data,
                 plugin_event_data, stream_event>>

NextReuse ==
  \/ /\ format_accepted = None
     /\ Len(parser_chain_components) < MaxDepth
     /\ AppendToParserChain(NameAtDepth(Len(parser_chain_components)))
  \/ CheckRequiredFormat
  \/ \E accepts \in BOOLEAN : ParseLine(accepts)
  \/ \E lines \in Files : OpenFile(lines)

SpecReuse == InitFile /\ [][NextReuse]_vars

(* C20: CheckRequiredFormat resets the partial state of the plugin before   *)
(* returning on every path: after it returns, true or false, the plugin is  *)
(* idle with no record in progress, also when the plugin instance had a     *)
(* section open at the call.                                                *)
C20_CheckAlwaysResets ==
  [][result'.op = "CheckRequiredFormat" => plugin_event_data' = None]_vars

\* The text before and after the last separator of s; ("", s) when s has
\* no separator.
SplitAtLast(s, separator) ==
  LET Has(t) == \E i \in 1..Len(t) : CharAt(t, i) = separator
  IN IF ~Has(s) THEN <<"", s>>
     ELSE CHOOSE pair \in {<<SubSeq(s, 1, i - 1), SubSeq(s, i + 1, Len(s))>> :
                             i \in 1..Len(s)} :
            pair[1] \o separator \o pair[2] = s /\ ~Has(pair[2])

\* The directory a relative path is looked up under.
LookupDirectory(relative_path, separator) ==
  LET directory == SplitAtLast(Lower(relative_path), separator)[1]
      segments == SplitAtLast(directory, separator)
  IN IF segments[2] \in {"en-us", "de-de", "is-is"} THEN segments[1]
     ELSE directory

\* The candidate filenames the index holds under the directory of a relative
\* path that are the filename of the path, with or without a trailing .mui.
Candidates(index, relative_path, separator) ==
  LET name == SplitAtLast(Lower(relative_path), separator)[2]
  IN {index[i].filename : i \in
        {j \in 1..Len(index) :
           /\ index[j].path = LookupDirectory(relative_path, separator)
           /\ \/ index[j].filename = name
              \/ index[j].filename \o ".mui" = name}}

C22_NoPartialRecord ==
  \A i \in 1..Len(storage) :
    storage[i].kind = "event_data" =>
      /\ storage[i].body.entry_type # None
      /\ storage[i].body.start_time # None
      /\ storage[i].body.end_time # None
      /\ storage[i].body.exit_status # None

\* The place of _SECTION_BODY_OR_NON_SECTION_LINE in _LINE_STRUCTURES.
CatchAllIndex == 5

\* The places of the line structures the text parser tries on a line: all up
\* to the first that matches, or all of them when none matches.
TriedStructures(s) ==
  {index \in 1..Len(LINE_STRUCTURES) :
     \A before \in 1..(index - 1) : LineStructure(before, s) = None}

(* C23: in the ordered table of line patterns the catch-all pattern for     *)
(* section body and non-section lines comes after every structural marker  *)
(* pattern (section_header, section_start, section_end,                     *)
(* section_end_exit_status), so that a line is tried against the catch-all  *)
(* only after all structural markers failed to match it.                    *)
C23_CatchAllIsTriedLast ==
  [][result'.op = "_ParseLines" =>
       /\ \A index \in 1..Len(LINE_STRUCTURES) :
            LINE_STRUCTURES[index] # "ignorable_line" =>
              index < CatchAllIndex
       /\ CatchAllIndex \in TriedStructures(text_lines[line_index + 1]) =>
            \A index \in 1..Len(LINE_STRUCTURES) :
              LINE_STRUCTURES[index] # "ignorable_line" =>
                LineStructure(index, text_lines[line_index + 1]) = None]_vars

(* C24: handling a section_start, section_end or section_end_exit_status    *)
(* line while no section is open (before the first section header or right  *)
(* after a record was submitted) is not a fatal abort: it submits no        *)
(* record, leaves the plugin without a record in progress and raises no     *)
(* error other than the recoverable parse error.                            *)
C24_LineWithoutSectionIsRecoverable ==
  [][(/\ result'.op = "_ParseRecord"
      /\ plugin_event_data = None
      /\ ValueOf(result'.value).key \in
           {"section_start", "section_end", "section_end_exit_status"}) =>
       /\ result'.error \in {NoError, ParseError}
       /\ plugin_event_data' = None
       /\ UNCHANGED <<storage, mediator_counters>>]_vars

\* Time elements that are no date: the 30th of February.
NoDate == <<2015, 2, 30, 17, 59, 28, 110>>

(* C25: when the time stamp fields of a section_start or section_end line   *)
(* cannot be turned into a date and time value, handling the line fails     *)
(* with a parse error raised to the caller, submits nothing, and leaves the *)
(* record in progress as it was before the line: still open, the time field *)
(* of the line not updated.                                                 *)
C25_MalformedTimestampIsRaised ==
  [][(/\ result'.op = "_ParseRecord"
      /\ \/ /\ ValueOf(result'.value).key = "section_start"
            /\ ValueOf(result'.value).structure.start_time = Some(NoDate)
         \/ /\ ValueOf(result'.value).key = "section_end"
            /\ ValueOf(result'.value).structure.end_time = Some(NoDate)) =>
       /\ result'.error = ParseError
       /\ UNCHANGED <<plugin_event_data, storage, mediator_counters>>]_vars

\* A section_end line with the 30th of February was handled in an open
\* section that has its start time: the record is still open, without an
\* end time.
C25_Witness ==
  /\ result.op = "_ParseRecord"
  /\ result.error = ParseError
  /\ ValueOf(result.value).key = "section_end"
  /\ ValueOf(result.value).structure.end_time = Some(NoDate)
  /\ plugin_event_data # None
  /\ ValueOf(plugin_event_data).start_time # None
  /\ ValueOf(plugin_event_data).end_time = None

\* The values of a record the lines of its section set.
SectionFields(record) ==
  <<record.entry_type, record.start_time, record.end_time,
    record.exit_status>>

(* C26: no plugin state leaks across records: for any sequence of matched   *)
(* lines, every field of a submitted record (entry_type, start_time,        *)
(* end_time, exit_status) was set by a line handled after the most recent   *)
(* section_header line, and after a successful submission the plugin holds  *)
(* no record in progress.  Stated step by step: a section_header line       *)
(* starts a record that holds its entry type and nothing else; a            *)
(* section_start or section_end line changes at most its own field, to its  *)
(* own value; an exit status line submits the record in progress with its   *)
(* own exit status and leaves no record; no other step of the plugin        *)
(* changes the record.                                                      *)
C26_NoLeakAcrossSections ==
  [][result'.op = "_ParseRecord" =>
       LET key == ValueOf(result'.value).key
           structure == ValueOf(result'.value).structure
           before == SectionFields(ValueOf(plugin_event_data))
           after == SectionFields(ValueOf(plugin_event_data'))
       IN CASE key = "section_header" ->
                 /\ plugin_event_data' # None
                 /\ after = <<structure.entry_type, None, None, None>>
            [] key = "section_start" /\ result'.error = NoError ->
                 /\ plugin_event_data' # None
                 /\ after[2] # None
                 /\ ValueOf(after[2]).time_elements_tuple =
                      ValueOf(structure.start_time)
                 /\ after = [before EXCEPT ![2] = after[2]]
            [] key = "section_end" /\ result'.error = NoError ->
                 /\ plugin_event_data' # None
                 /\ after[3] # None
                 /\ ValueOf(after[3]).time_elements_tuple =
                      ValueOf(structure.end_time)
                 /\ after = [before EXCEPT ![3] = after[3]]
            [] key = "section_end_exit_status" /\ result'.error = NoError ->
                 /\ plugin_event_data' = None
                 /\ Len(storage') = Len(storage) + 1
                 /\ SectionFields(storage'[Len(storage')].body) =
                      [before EXCEPT ![4] = structure.exit_status]
            [] OTHER ->
                 /\ UNCHANGED storage
                 /\ plugin_event_data = None => plugin_event_data' = None
                 /\ plugin_event_data # None =>
                      /\ plugin_event_data' # None
                      /\ after \in
                           {before,
                            [before EXCEPT ![4] = structure.exit_status]}]_vars

\* A section with a start and an end time was submitted, and after it a
\* section of another entry type that had neither: its record holds no time
\* of the section before, and no record is in progress.
C26_Witness ==
  /\ Len(storage) = 2
  /\ plugin_event_data = None
  /\ storage[1].body.start_time # None
  /\ storage[1].body.end_time # None
  /\ storage[2].body.entry_type # storage[1].body.entry_type
  /\ storage[2].body.start_time = None
  /\ storage[2].body.end_time = None

(* C27: ResetFileEntry clears only the active file entry and leaves the    *)
(* active stream identifier unchanged, so event data produced after         *)
(* ResetFileEntry, with no SetFileEntry or ProduceEventDataStream in        *)
(* between, is still attached to the stream identifier of the file that was *)
(* active before the reset.                                                 *)
C27_ResetKeepsStream ==
  [][/\ result'.op = "ResetFileEntry" =>
          /\ result'.error = NoError
          /\ file_entry' = None
          /\ UNCHANGED <<event_data_stream_identifier, storage_writer,
                         mediator_chain, mediator_preferences,
                         mediator_counters, last_activity_timestamp,
                         storage, event_data>>
     /\ (/\ result'.op = "ProduceEventData"
         /\ result'.error = NoError
         /\ file_entry = None
         /\ event_data_stream_identifier # None) =>
          /\ storage[ValueOf(event_data_stream_identifier)].kind =
               "event_data_stream"
          /\ storage'[Len(storage')].kind = "event_data"
          /\ storage'[Len(storage')].body.stream_identifier =
               event_data_stream_identifier
          /\ UNCHANGED event_data_stream_identifier]_vars

\* A stream was produced for the log file, the file entry was reset, and
\* event data produced afterwards carries the identifier of that stream.
C27_Witness ==
  /\ result.op = "ProduceEventData"
  /\ result.error = NoError
  /\ file_entry = None
  /\ Len(storage) = 2
  /\ storage[1] = Container("event_data_stream", LogPathSpec)
  /\ storage[2].kind = "event_data"
  /\ storage[2].body.stream_identifier = Some(1)
  /\ event_data_stream_identifier = Some(1)

(* C28: the language property always returns the language tag in lower     *)
(* case: in the initial state, after SetPreferredLanguage with a tag in     *)
(* mixed case such as 'en-US', and after SetPreferredLanguage(None), when   *)
(* the value comes from the knowledge base or the default.                  *)
C28_LanguageIsLowerCase ==
  [][result'.op = "language" =>
       /\ result'.error = NoError
       /\ result'.value # None
       /\ ValueOf(result'.value) = Lower(ValueOf(result'.value))]_vars

=============================================================================
